---- MODULE Spec2Model ----
(***************************************************************************)
(* Minimal Metrics: the event ingestion -> batched persistence ->          *)
(* hourly aggregation pipeline (server/api/collect.js, server/db/queries.js,*)
(* server/utils/validation.js, server/index.js).                           *)
(*                                                                         *)
(* Time is counted in milliseconds since 2020-01-01T00:00:00Z, the floor   *)
(* of validateTimestamp, so that every instant of a run fits TLC's         *)
(* integers; that origin is hour aligned, and every computation of the     *)
(* code on instants is a difference, a comparison or a truncation to the   *)
(* hour.                                                                   *)
(***************************************************************************)
EXTENDS Integers, Sequences, FiniteSets, TLC

(* ------------------------------ bounds -------------------------------- *)

\* number of collect requests the clients send in a run
MaxRequests == 2
\* number of clock steps of a run
MaxTicks == 4
\* clock steps per hour
TicksPerHour == 2
\* number of events handed to the storage layer directly in a run
MaxStored == 2
\* number of direct calls of updateActiveVisitor in a run
MaxUpserts == 4
\* number of direct calls of hashSession in a run
MaxCalls == 2
\* the limits of the two limiters of the server (200 and 100 in index.js),
\* scaled to the number of requests of a run
CollectLimit == 2
ApiLimit == 1
\* the number of keys above which a limiter sweeps the map (1000 in
\* rateLimit.js), scaled to the number of clients of a run
MaxKeys == 1

\* the greatest number of rows a list endpoint of the stats API asks for,
\* and the numbers it asks for without a limit parameter (pages and
\* referrers, campaigns): scaled so that the sample rows can exceed them
\* (100, 20 and 50 in handleStats)
ListCap == 2
ListDefault == 1
CampaignDefault == 2

(* ------------------------- program constants -------------------------- *)

MAX_BODY_SIZE == 10 * 1024
MAX_URL_LENGTH == 2000
MAX_SESSION_ID_LENGTH == 50
MAX_REFERRER_LENGTH == 2000
MAX_SCREEN_SIZE_LENGTH == 20
MAX_TIMEZONE_LENGTH == 50
MAX_EVENT_NAME_LENGTH == 100
MAX_EVENT_PROPS_SIZE == 5000
MAX_UTM_LENGTH == 200
HourMs == 3600000
DayMs == 86400000
ActiveWindowSec == 300

TickMs == HourMs \div TicksPerHour
\* the instant the process starts: 25.5 hours after the origin, not hour aligned
StartNow == 25 * HourMs + TickMs
\* validateTimestamp: new Date('2020-01-01').getTime(), the origin of the clock
minTime == 0

(* --------------------------- JavaScript values ------------------------ *)

\* A value of a JSON payload: its type, its text (strings), its length
\* (strings: characters; objects: length of the serialization), its number.
JsVal(t, s, len, n) == [t |-> t, s |-> s, len |-> len, n |-> n]
JsUndefined == JsVal("undefined", "", 0, 0)
JsNull == JsVal("null", "", 0, 0)
JsStr(s, len) == JsVal("string", s, len, 0)
JsNum(n) == JsVal("number", "", 0, n)
JsObj(len) == JsVal("object", "", len, 0)
JsArr(len) == JsVal("array", "", len, 0)

\* v || d
JsOr(v, d) ==
  IF \/ v.t \in {"undefined", "null"}
     \/ (v.t = "string" /\ v.len = 0)
     \/ (v.t = "number" /\ v.n = 0)
  THEN d ELSE v

\* the sample strings that begin with http:// or https://
HttpTexts == {"https://ex.com/a", "https://ex.com/b", "https://google.com", "https://long"}
\* the sample strings matching /^[a-zA-Z0-9_-]+$/
SidTexts == {"s1", "s2", "sid-long"}
\* the sample strings matching /^\d+x\d+$/
ScrTexts == {"1920x1080"}

(* ------------------------------ validation ---------------------------- *)

Ok == "ok"

validateUrl(url) ==
  IF url.t # "string" THEN "URL must be a string"
  ELSE IF url.len = 0 THEN "URL is required"
  ELSE IF url.len > MAX_URL_LENGTH THEN "URL exceeds maximum length of " \o ToString(MAX_URL_LENGTH)
  ELSE IF url.s \notin HttpTexts THEN "URL must start with http:// or https://"
  ELSE Ok

validateSessionId(sid) ==
  IF sid.t # "string" THEN "Session ID must be a string"
  ELSE IF sid.len = 0 THEN "Session ID is required"
  ELSE IF sid.len > MAX_SESSION_ID_LENGTH THEN "Session ID exceeds maximum length of " \o ToString(MAX_SESSION_ID_LENGTH)
  ELSE IF sid.s \notin SidTexts THEN "Session ID contains invalid characters"
  ELSE Ok

\* null, undefined or '' : the optional field is absent
Absent(v) == v.t \in {"null", "undefined"} \/ (v.t = "string" /\ v.len = 0)

validateReferrer(ref) ==
  IF Absent(ref) THEN Ok
  ELSE IF ref.t # "string" THEN "Referrer must be a string"
  ELSE IF ref.len > MAX_REFERRER_LENGTH THEN "Referrer exceeds maximum length of " \o ToString(MAX_REFERRER_LENGTH)
  ELSE Ok

validateScreenSize(scr) ==
  IF Absent(scr) THEN Ok
  ELSE IF scr.t # "string" THEN "Screen size must be a string"
  ELSE IF scr.len > MAX_SCREEN_SIZE_LENGTH THEN "Screen size exceeds maximum length of " \o ToString(MAX_SCREEN_SIZE_LENGTH)
  ELSE IF scr.s \notin ScrTexts THEN "Screen size must be in format WIDTHxHEIGHT"
  ELSE Ok

validateTimezone(tz) ==
  IF Absent(tz) THEN Ok
  ELSE IF tz.t # "string" THEN "Timezone must be a string"
  ELSE IF tz.len > MAX_TIMEZONE_LENGTH THEN "Timezone exceeds maximum length of " \o ToString(MAX_TIMEZONE_LENGTH)
  ELSE Ok

\* without the ceiling of one day ahead
validateTimestamp_NoCeiling(ts, dateNow) ==
  IF ts.t \in {"null", "undefined"} THEN Ok
  ELSE IF ts.t # "number" THEN "Timestamp must be a number"
  ELSE IF ts.n < minTime THEN "Timestamp is out of valid range"
  ELSE Ok

\* dateNow is Date.now() at the time of the call
validateTimestamp(ts, dateNow) ==
  IF ts.t \in {"null", "undefined"} THEN Ok
  ELSE IF ts.t # "number" THEN "Timestamp must be a number"
  ELSE IF ts.n < minTime \/ ts.n > dateNow + DayMs THEN "Timestamp is out of valid range"
  ELSE Ok

validateEventName(evt) ==
  IF Absent(evt) THEN Ok
  ELSE IF evt.t # "string" THEN "Event name must be a string"
  ELSE IF evt.len > MAX_EVENT_NAME_LENGTH THEN "Event name exceeds maximum length of " \o ToString(MAX_EVENT_NAME_LENGTH)
  ELSE Ok

validateEventProps(props) ==
  IF props.t \in {"null", "undefined"} THEN Ok
  ELSE IF props.t # "object" THEN "Event properties must be an object"
  ELSE IF props.len > MAX_EVENT_PROPS_SIZE THEN "Event properties exceed maximum size of " \o ToString(MAX_EVENT_PROPS_SIZE)
  ELSE Ok

validateUtm(utm, name) ==
  IF Absent(utm) THEN Ok
  ELSE IF utm.t # "string" THEN name \o " must be a string"
  ELSE IF utm.len > MAX_UTM_LENGTH THEN name \o " exceeds maximum length of " \o ToString(MAX_UTM_LENGTH)
  ELSE Ok

\* the optional fields are checked only when the required ones pass
FieldResults_RequiredFirst(data, dateNow) ==
  << validateUrl(data.url), validateSessionId(data.sid) >> \o
  (IF validateUrl(data.url) = Ok /\ validateSessionId(data.sid) = Ok
   THEN << validateReferrer(data.ref),
           validateScreenSize(data.scr), validateTimezone(data.tz),
           validateTimestamp(data.ts, dateNow), validateEventName(data.evt),
           validateEventProps(data.props),
           validateUtm(data.utm_source, "utm_source"), validateUtm(data.utm_medium, "utm_medium"),
           validateUtm(data.utm_campaign, "utm_campaign"), validateUtm(data.utm_term, "utm_term"),
           validateUtm(data.utm_content, "utm_content") >>
   ELSE [i \in 1..11 |-> Ok])

\* the results of the thirteen field validators, in the order of the code
FieldResults(data, dateNow) ==
  << validateUrl(data.url), validateSessionId(data.sid), validateReferrer(data.ref),
     validateScreenSize(data.scr), validateTimezone(data.tz),
     validateTimestamp(data.ts, dateNow), validateEventName(data.evt),
     validateEventProps(data.props),
     validateUtm(data.utm_source, "utm_source"), validateUtm(data.utm_medium, "utm_medium"),
     validateUtm(data.utm_campaign, "utm_campaign"), validateUtm(data.utm_term, "utm_term"),
     validateUtm(data.utm_content, "utm_content") >>

\* errors.push(result.error) for every failing result, in order
RECURSIVE PushErrors(_)
PushErrors(results) ==
  IF results = <<>> THEN <<>>
  ELSE (IF Head(results) = Ok THEN <<>> ELSE <<Head(results)>>) \o PushErrors(Tail(results))

\* returns at the first failing field
validateCollectData_FirstOnly(data, dateNow) ==
  LET errors == PushErrors(FieldResults(data, dateNow))
  IN [valid |-> errors = <<>>,
      errors |-> IF errors = <<>> THEN <<>> ELSE << Head(errors) >>]

validateCollectData(data, dateNow) ==
  LET errors == PushErrors(FieldResults(data, dateNow))
  IN [valid |-> errors = <<>>, errors |-> errors]

(* ------------------------- geo and anonymization ---------------------- *)

NoHeader == "(none)"

\* countryMap[code] || code, on the sample codes
countryMap(code) ==
  IF code = "US" THEN "United States"
  ELSE IF code = "DE" THEN "Germany"
  ELSE code

parseCloudflareHeaders(headers) ==
  IF headers.cf_ipcountry # NoHeader THEN countryMap(headers.cf_ipcountry) ELSE NoHeader

\* the sample values of x-country-code are upper case already
parseIpCountryHeader(headers) ==
  IF headers.x_country_code # NoHeader THEN countryMap(headers.x_country_code) ELSE NoHeader

\* the sample x-forwarded-for values hold one address
getIpFromHeaders(headers) ==
  IF headers.x_forwarded_for # NoHeader THEN headers.x_forwarded_for
  ELSE IF headers.x_real_ip # NoHeader THEN headers.x_real_ip
  ELSE IF headers.cf_connecting_ip # NoHeader THEN headers.cf_connecting_ip
  ELSE NoHeader

\* the sample addresses in 192.168., 10. or 172.
PrivateIps == {"10.0.0.7"}

getCountryFromIp(ip, headers) ==
  IF parseCloudflareHeaders(headers) # NoHeader THEN parseCloudflareHeaders(headers)
  ELSE IF parseIpCountryHeader(headers) # NoHeader THEN parseIpCountryHeader(headers)
  ELSE IF ip \in {NoHeader, "::1", "127.0.0.1"} THEN "Local"
  ELSE IF ip \in PrivateIps THEN "Private Network"
  ELSE "Unknown"

extractIpInfo(req) ==
  LET ip == IF getIpFromHeaders(req.headers) # NoHeader
            THEN getIpFromHeaders(req.headers) ELSE req.remoteAddress
  IN [ip |-> ip, country |-> getCountryFromIp(ip, req.headers)]

\* new Date().toDateString(): the text of the calendar day of the clock, in
\* the zone of the server (UTC)
DateString(dateNow) ==
  LET day == dateNow \div DayMs
  IN CASE day = 0 -> "Wed Jan 01 2020"
       [] day = 1 -> "Thu Jan 02 2020"
       [] day = 2 -> "Fri Jan 03 2020"
       [] day = 3 -> "Sat Jan 04 2020"
       [] OTHER -> "Day " \o ToString(day + 1) \o " 2020"

\* createHash('sha256').update(text).digest('hex'): 64 characters out of
\* 0-9a-f. The digest is taken as free of collisions: it is named by the
\* text it is the digest of
sha256hex(text) == [of |-> text, length |-> 64, chars |-> "0-9a-f"]

\* .substring(0, end) of a digest
substring(digest, end) == [digest EXCEPT !.length = IF end < @ THEN end ELSE @]

\* the digest is made of the session id, the address and the instant
hashSession_Instant(sessionId, ip, dateNow) ==
  substring(sha256hex(sessionId \o ":" \o ip \o ":" \o ToString(dateNow)), 16)

\* the digest is made of the session id and the date
hashSession_NoIp(sessionId, ip, dateNow) ==
  substring(sha256hex(sessionId \o ":" \o DateString(dateNow)), 16)

\* hashSession (lines 19-25), called when the clock shows dateNow
hashSession(sessionId, ip, dateNow) ==
  substring(sha256hex(sessionId \o ":" \o ip \o ":" \o DateString(dateNow)), 16)

(* ------------------------------ collect.js ---------------------------- *)

\* new URL(url).pathname on the sample urls; the url itself when URL throws
parseUrlPath(url) ==
  IF url = "https://ex.com/a" THEN "/a"
  ELSE IF url = "https://ex.com/b" THEN "/b"
  ELSE IF url = "https://ex.com/c" THEN "/c"
  ELSE IF url = "https://ex.com/a?x=1" THEN "/a"
  ELSE IF url = "https://google.com" THEN "/"
  ELSE url

parseReferrer(ref) ==
  IF JsOr(ref, JsNull) = JsNull THEN JsNull
  ELSE IF ref.s = "https://google.com" THEN JsStr("Google", 6)
  ELSE IF ref.s = "https://ex.com/a" THEN JsStr("ex.com", 6)
  ELSE IF ref.s = "https://ex.com/b" THEN JsStr("ex.com", 6)
  ELSE ref

\* data.ts || Date.now() (line 123). The clock of the model counts from
\* 2020-01-01, so the number 0 of JavaScript, the only falsy instant, lies
\* fifty years before the origin and no number of the model denotes it
TsOr(ts, dateNow) == IF ts.t = "number" THEN ts.n ELSE JsOr(ts, JsNum(dateNow)).n

\* the event object built by handleCollect (lines 122-138); rid names the
\* request the event comes from
NewEvent(rid, data, req, dateNow) ==
  LET info == extractIpInfo(req)
  IN [ rid |-> rid,
       timestamp |-> TsOr(data.ts, dateNow),
       page_url |-> parseUrlPath(data.url.s),
       referrer |-> parseReferrer(data.ref),
       session_hash |-> hashSession(data.sid.s, info.ip, dateNow),
       country |-> info.country,
       screen_size |-> JsOr(data.scr, JsNull),
       timezone |-> JsOr(data.tz, JsNull),
       event_name |-> JsOr(data.evt, JsStr("pageview", 8)).s,
       event_props |-> JsOr(data.props, JsNull),
       utm_source |-> JsOr(data.utm_source, JsNull),
       utm_medium |-> JsOr(data.utm_medium, JsNull),
       utm_campaign |-> JsOr(data.utm_campaign, JsNull),
       utm_term |-> JsOr(data.utm_term, JsNull),
       utm_content |-> JsOr(data.utm_content, JsNull) ]

(* ------------------------------ queries.js ---------------------------- *)

\* insertEvent: the row that INSERT INTO events binds (lines 36-51), with the
\* AUTOINCREMENT id
EventRow(id, data) ==
  [ id |-> id,
    rid |-> data.rid,
    timestamp |-> data.timestamp,
    page_url |-> data.page_url,
    referrer |-> data.referrer,
    session_hash |-> data.session_hash,
    country |-> data.country,
    screen_size |-> data.screen_size,
    timezone |-> data.timezone,
    event_name |-> IF data.event_name = "" THEN "pageview" ELSE data.event_name,
    event_props |-> IF data.event_props.t = "object"
                    THEN JsStr("json", data.event_props.len) ELSE JsNull,
    utm_source |-> JsOr(data.utm_source, JsNull),
    utm_medium |-> JsOr(data.utm_medium, JsNull),
    utm_campaign |-> JsOr(data.utm_campaign, JsNull),
    utm_term |-> JsOr(data.utm_term, JsNull),
    utm_content |-> JsOr(data.utm_content, JsNull) ]

\* writes over the row the session has already (INSERT OR REPLACE on a key
\* of the session)
insertEvent_Upsert(db, data) ==
  LET known == {e \in db.events : e.session_hash = data.session_hash}
  IN IF known = {}
     THEN [db EXCEPT !.events = @ \cup {EventRow(db.nextEventId, data)},
                     !.nextEventId = @ + 1]
     ELSE [db EXCEPT !.events = (@ \ known) \cup {EventRow(e.id, data) : e \in known}]

\* db is the record of the tables: events, nextEventId, active_visitors
insertEvent(db, data) ==
  [db EXCEPT !.events = @ \cup {EventRow(db.nextEventId, data)},
             !.nextEventId = @ + 1]

\* the update starts page_count again at 1 when the row it finds is older
\* than the window
updateActiveVisitor_Restart(db, sessionHash, pageUrl, country, dateNow) ==
  LET nowSec == dateNow \div 1000
      known == {v \in db.active_visitors : v.session_hash = sessionHash}
  IN IF known # {}
     THEN [db EXCEPT !.active_visitors =
             {v \in @ : v.session_hash # sessionHash} \cup
             {[v EXCEPT !.page_url = pageUrl, !.last_seen = nowSec,
                        !.page_count = IF v.last_seen < nowSec - ActiveWindowSec
                                       THEN 1 ELSE @ + 1] : v \in known}]
     ELSE [db EXCEPT !.active_visitors =
             {v \in @ \cup {[session_hash |-> sessionHash, page_url |-> pageUrl,
                             country |-> country, last_seen |-> nowSec,
                             page_count |-> 1]} :
                ~(v.last_seen < nowSec - ActiveWindowSec)}]

\* INSERT ... ON CONFLICT(session_hash) DO UPDATE; the AFTER INSERT trigger
\* cleanup_active_visitors runs when a row was inserted
updateActiveVisitor(db, sessionHash, pageUrl, country, dateNow) ==
  LET nowSec == dateNow \div 1000
      known == {v \in db.active_visitors : v.session_hash = sessionHash}
  IN IF known # {}
     THEN [db EXCEPT !.active_visitors =
             {v \in @ : v.session_hash # sessionHash} \cup
             {[v EXCEPT !.page_url = pageUrl, !.last_seen = nowSec,
                        !.page_count = @ + 1] : v \in known}]
     ELSE [db EXCEPT !.active_visitors =
             {v \in @ \cup {[session_hash |-> sessionHash, page_url |-> pageUrl,
                             country |-> country, last_seen |-> nowSec,
                             page_count |-> 1]} :
                ~(v.last_seen < nowSec - ActiveWindowSec)}]

\* a value of a DATETIME or DATE column: NULL, or the text of an instant,
\* named by its seconds (days for a DATE) since the origin of the clock; the
\* texts are of one format, so their order is the order of the instants
SqlNull == [null |-> TRUE, t |-> 0]
SqlTime(t) == [null |-> FALSE, t |-> t]

\* datetime(timestamp/1000, 'unixepoch', 'start of hour'): the modifiers of
\* SQLite's date functions are 'start of month', 'start of year' and 'start
\* of day' (with 'NNN hours', 'weekday N', 'unixepoch', 'localtime', ...);
\* 'start of hour' is none of them, and a date function with a modifier it
\* does not know returns NULL
StartOfHour(timestamp) == SqlNull

\* reads the pageviews of the hour that ended at hourAgo only
SelectHourly_LastHour(rows, hourAgo) ==
  LET sel == {e \in rows : /\ e.timestamp < hourAgo
                           /\ e.timestamp >= hourAgo - HourMs
                           /\ e.event_name = "pageview"}
  IN { [hour |-> h,
        page_views |-> Cardinality({e \in sel : StartOfHour(e.timestamp) = h}),
        unique_visitors |-> Cardinality({e.session_hash :
                               e \in {x \in sel : StartOfHour(x.timestamp) = h}})] :
       h \in {StartOfHour(e.timestamp) : e \in sel} }

\* the SELECT of aggregateHourlyStats: one row per value of hour of the
\* pageview events older than hourAgo (GROUP BY puts the NULLs in one group)
SelectHourly(rows, hourAgo) ==
  LET sel == {e \in rows : e.timestamp < hourAgo /\ e.event_name = "pageview"}
  IN { [hour |-> h,
        page_views |-> Cardinality({e \in sel : StartOfHour(e.timestamp) = h}),
        unique_visitors |-> Cardinality({e.session_hash :
                               e \in {x \in sel : StartOfHour(x.timestamp) = h}})] :
       h \in {StartOfHour(e.timestamp) : e \in sel} }

\* the rowid SQLite gives the next row of a table without AUTOINCREMENT
NextRowid(table) ==
  IF table = {} THEN 1
  ELSE 1 + (CHOOSE m \in {r.rowid : r \in table} : \A r \in table : r.rowid <= m)

\* INSERT OR REPLACE INTO stats_hourly (hour, page_views, unique_visitors),
\* run for the one row the GROUP BY of this model yields: the row replaces
\* the row of the same hour; hour is a DATETIME PRIMARY KEY of a rowid table,
\* which admits NULL, and a NULL conflicts with no row
InsertOrReplace(table, stat) ==
  {r \in table : r.hour = SqlNull \/ r.hour # stat.hour}
  \cup {[rowid |-> NextRowid(table), hour |-> stat.hour,
         page_views |-> stat.page_views, unique_visitors |-> stat.unique_visitors]}

\* for (const stat of stats) insertStmt.run(...)
RECURSIVE InsertAll(_, _)
InsertAll(table, stats) ==
  IF stats = {} THEN table
  ELSE LET stat == CHOOSE x \in stats : TRUE
       IN InsertAll(InsertOrReplace(table, stat), stats \ {stat})

\* purges at the boundary of the SELECT, with no day of retention
aggregateHourlyStats_NoRetention(tables, dateNow) ==
  LET hourAgo == dateNow - HourMs
      stats == SelectHourly(tables.events, hourAgo)
  IN [ events |-> {e \in tables.events : ~(e.timestamp < hourAgo)},
       stats_hourly |-> InsertAll(tables.stats_hourly, stats) ]

\* the transaction of aggregateHourlyStats: tables is [events, stats_hourly]
aggregateHourlyStats(tables, dateNow) ==
  LET hourAgo == dateNow - HourMs
      stats == SelectHourly(tables.events, hourAgo)
  IN [ events |-> {e \in tables.events : ~(e.timestamp < hourAgo - DayMs)},
       stats_hourly |-> InsertAll(tables.stats_hourly, stats) ]

\* the statements of the transaction that may throw: the SELECT, an INSERT
\* OR REPLACE, the DELETE
Failures == {"select", "insert", "purge"}

\* the tables as the statements before the one that throws have left them:
\* nothing is written before the SELECT, some of the buckets before an
\* INSERT, all of them before the DELETE
Interrupted(tables, dateNow, failure) ==
  LET stats == SelectHourly(tables.events, dateNow - HourMs)
  IN CASE failure = "select" -> {tables}
       [] failure = "insert" ->
            { [tables EXCEPT !.stats_hourly = InsertAll(tables.stats_hourly, done)] :
                done \in (SUBSET stats) \ {stats} }
       [] failure = "purge" ->
            { [tables EXCEPT !.stats_hourly = InsertAll(tables.stats_hourly, stats)] }

\* keeps what the statements wrote before the exception
transaction_NoRollback(before, written) == written

\* db.transaction(fn)() of better-sqlite3 when fn throws: the transaction
\* is rolled back and the exception passed on, so the tables are as before
transaction(before, written) == before

\* counts every row of the table, leaving the window to the trigger
getActiveVisitors_AllRows(table, dateNow) ==
  Cardinality({v.session_hash : v \in table})

\* SELECT COUNT(DISTINCT session_hash) ... WHERE last_seen > ? of
\* getActiveVisitors
getActiveVisitors(table, dateNow) ==
  LET fiveMinutesAgo == dateNow \div 1000 - ActiveWindowSec
  IN Cardinality({v.session_hash : v \in {x \in table : x.last_seen > fiveMinutesAgo}})

\* process.env without the retention settings
NoEnv == [RAW_DATA_RETENTION |-> JsUndefined, AGGREGATED_DATA_RETENTION |-> JsUndefined]

\* parseInt on the sample texts
parseInt(text) ==
  CASE text = "24" -> 24
    [] text = "48" -> 48
    [] text = "365" -> 365
    [] text = "8760" -> 8760

DaySec == 86400

\* what the two statements of cleanupOldData do
SweepOutcomes == {"ok", "dailyThrows", "hourlyThrows"}

\* cleanupOldData: tables is [stats_daily, stats_hourly]; the cutoff is kept
\* in seconds, cutoffDate / 1000, which datetime() and date() cut to the
\* second and to the day; a NULL key is less than nothing
cleanupOldData(tables, environment, dateNow, outcome) ==
  LET retentionDays ==
        parseInt(JsOr(environment.AGGREGATED_DATA_RETENTION, JsStr("365", 3)).s)
      cutoffSec == dateNow \div 1000 - retentionDays * DaySec
      daily == {r \in tables.stats_daily :
                  ~(~r.date.null /\ r.date.t < cutoffSec \div DaySec)}
      hourly == {r \in tables.stats_hourly :
                  ~(~r.hour.null /\ r.hour.t < cutoffSec)}
  IN [ stats_daily |-> IF outcome = "dailyThrows" THEN tables.stats_daily ELSE daily,
       stats_hourly |-> IF outcome = "ok" THEN hourly ELSE tables.stats_hourly ]

\* the history of updateActiveVisitor after a step that took the table from
\* before to after: every row the step wrote was upserted in it
RECURSIVE Greatest(_)
Greatest(S) ==
  LET x == CHOOSE y \in S : TRUE
  IN IF S = {x} THEN x
     ELSE IF x > Greatest(S \ {x}) THEN x ELSE Greatest(S \ {x})
Visited(history, before, after, dateNow) ==
  LET touched == after \ before
      Old(f) == {h \in history : h.session_hash = f}
      Row(f) == {v \in before : v.session_hash = f}
  IN {h \in history : \A v \in touched : v.session_hash # h.session_hash}
     \cup {[ session_hash |-> v.session_hash,
              last |-> dateNow \div 1000,
              peak |-> Greatest({v.page_count} \cup {h.peak : h \in Old(v.session_hash)}),
              n |-> Greatest({0} \cup {h.n : h \in Old(v.session_hash)})
                    + v.page_count
                    - Greatest({0} \cup {w.page_count : w \in Row(v.session_hash)}) ] :
            v \in touched}

(* ------------------------ the queries of the stats API ---------------- *)

\* WHERE timestamp BETWEEN ? AND ? AND event_name = 'pageview'
Pageviews(rows, startTime, endTime) ==
  {e \in rows : /\ e.timestamp >= startTime
                /\ e.timestamp <= endTime
                /\ e.event_name = "pageview"}

\* counts the events of every name
getPageViews_AllEvents(rows, startTime, endTime) ==
  LET sel == {e \in rows : e.timestamp >= startTime /\ e.timestamp <= endTime}
  IN [ total |-> Cardinality(sel),
       unique_visitors |-> Cardinality({e.session_hash : e \in sel}) ]

\* getPageViews (lines 78-89)
getPageViews(rows, startTime, endTime) ==
  LET sel == Pageviews(rows, startTime, endTime)
  IN [ total |-> Cardinality(sel),
       unique_visitors |-> Cardinality({e.session_hash : e \in sel}) ]

\* ORDER BY <column> DESC: the orders in which SQLite may return the groups,
\* groups of equal count in either order
OrderByDesc(groups, column) ==
  {rows \in [1..Cardinality(groups) -> groups] :
     /\ \A i, j \in DOMAIN rows : i # j => rows[i] # rows[j]
     /\ \A i, j \in DOMAIN rows : i < j => rows[i][column] >= rows[j][column]}

\* LIMIT ?: the first rows; a negative LIMIT is no limit
SqlLimit(rows, limit) ==
  IF limit < 0 \/ limit >= Len(rows) THEN rows ELSE SubSeq(rows, 1, limit)

\* GROUP BY page_url of the pageviews of a period
PageGroups(rows, startTime, endTime) ==
  LET sel == Pageviews(rows, startTime, endTime)
  IN { [ page_url |-> p,
         views |-> Cardinality({e \in sel : e.page_url = p}),
         unique_visitors |-> Cardinality({e.session_hash : e \in {x \in sel : x.page_url = p}}) ] :
       p \in {e.page_url : e \in sel} }

\* counts the visitors of a page as its views
getTopPages_Visitors(rows, startTime, endTime, limit) ==
  LET groups == { [g EXCEPT !.views = g.unique_visitors] : g \in PageGroups(rows, startTime, endTime) }
  IN { SqlLimit(r, limit) : r \in OrderByDesc(groups, "views") }

\* getTopPages (lines 91-106): the results the statement may give
getTopPages(rows, startTime, endTime, limit) ==
  { SqlLimit(r, limit) :
      r \in OrderByDesc(PageGroups(rows, startTime, endTime), "views") }

\* getTopReferrers (lines 108-123): GROUP BY referrer groups by the column,
\* the events without referrer in one group that is reported as 'Direct'
getTopReferrers(rows, startTime, endTime, limit) ==
  LET sel == Pageviews(rows, startTime, endTime)
      groups == { [ referrer |-> IF ref = JsNull THEN "Direct" ELSE ref.s,
                    visits |-> Cardinality({e \in sel : e.referrer = ref}),
                    unique_visitors |->
                      Cardinality({e.session_hash : e \in {x \in sel : x.referrer = ref}}) ] :
                  ref \in {e.referrer : e \in sel} }
  IN { SqlLimit(r, limit) : r \in OrderByDesc(groups, "visits") }

\* getCampaignStats (lines 205-223): the pageviews with a UTM parameter,
\* grouped by source, medium and campaign
getCampaignStats(rows, startTime, endTime, limit) ==
  LET sel == {e \in Pageviews(rows, startTime, endTime) :
                e.utm_source # JsNull \/ e.utm_medium # JsNull \/ e.utm_campaign # JsNull}
      Key(e) == << e.utm_source, e.utm_medium, e.utm_campaign >>
      groups == { [ utm_source |-> IF k[1] = JsNull THEN "direct" ELSE k[1].s,
                    utm_medium |-> IF k[2] = JsNull THEN "none" ELSE k[2].s,
                    utm_campaign |-> IF k[3] = JsNull THEN "none" ELSE k[3].s,
                    visits |-> Cardinality({e \in sel : Key(e) = k}),
                    unique_visitors |->
                      Cardinality({e.session_hash : e \in {x \in sel : Key(x) = k}}) ] :
                  k \in {Key(e) : e \in sel} }
  IN { SqlLimit(r, limit) : r \in OrderByDesc(groups, "visits") }

\* a number of JavaScript that is a percentage: finite with its value in
\* tenths, or not finite (Infinity, -Infinity, NaN)
Percent(n) == [finite |-> TRUE, tenths |-> 10 * n]
NotFinite == [finite |-> FALSE, tenths |-> 0]

\* Math.round(((curr - prev) / prev) * 100 * 10) / 10 (line 241): the
\* quotient is not finite when prev is 0, and Math.round rounds a half up
RoundedChange(curr, prev) ==
  IF prev = 0 THEN NotFinite
  ELSE [finite |-> TRUE, tenths |-> (2000 * (curr - prev) + prev) \div (2 * prev)]

\* the formula without the case of a previous value of 0
calculateChange_Naive(curr, prev) == RoundedChange(curr, prev)

\* calculateChange (lines 239-242)
calculateChange(curr, prev) ==
  IF prev = 0 THEN (IF curr > 0 THEN Percent(100) ELSE Percent(0))
  ELSE RoundedChange(curr, prev)

\* getPageViewsWithComparison (lines 231-252)
getPageViewsWithComparison(rows, startTime, endTime) ==
  LET duration == endTime - startTime
      prevStartTime == startTime - duration
      prevEndTime == endTime - duration
      current == getPageViews(rows, startTime, endTime)
      previous == getPageViews(rows, prevStartTime, prevEndTime)
  IN [ current |-> current,
       previous |-> previous,
       change |-> [ total |-> calculateChange(current.total, previous.total),
                    unique_visitors |->
                      calculateChange(current.unique_visitors, previous.unique_visitors) ] ]

\* a query parameter the url does not have (searchParams.get gives null)
NoParam == "(none)"

\* new Date().toISOString().split('T')[0] on the days of the model
IsoDate(dateNow) ==
  CASE dateNow \div DayMs = 0 -> "2020-01-01"
    [] dateNow \div DayMs = 1 -> "2020-01-02"
    [] dateNow \div DayMs = 2 -> "2020-01-03"
    [] OTHER -> "2020-01-04"

\* date(?) of SQLite on the sample texts: the day, and NULL for a text that
\* is no date
SqlDate(text) ==
  CASE text = "2020-01-01" -> SqlTime(0)
    [] text = "2020-01-02" -> SqlTime(1)
    [] text = "2020-01-03" -> SqlTime(2)
    [] text = "2020-01-04" -> SqlTime(3)
    [] OTHER -> SqlNull

\* strftime('%H', datetime(timestamp/1000, 'unixepoch'))
HourOf(timestamp) ==
  LET h == ((timestamp \div 1000) \div 3600) % 24
  IN IF h < 10 THEN "0" \o ToString(h) ELSE ToString(h)

\* the rows of a set of hourly groups in the order of their hours
RECURSIVE OrderByHour(_)
OrderByHour(groups) ==
  IF groups = {} THEN << >>
  ELSE LET first == CHOOSE g \in groups : \A x \in groups : g.h <= x.h
       IN << [hour |-> first.hour, page_views |-> first.page_views,
              unique_visitors |-> first.unique_visitors] >>
          \o OrderByHour(groups \ {first})

\* getHourlyStats (lines 142-156): the pageviews of the date, per hour that
\* has some; a comparison with NULL selects nothing
getHourlyStats(rows, date) ==
  LET day == SqlDate(date)
      sel == {e \in rows : /\ ~day.null
                           /\ (e.timestamp \div 1000) \div DaySec = day.t
                           /\ e.event_name = "pageview"}
      HourNumber(e) == ((e.timestamp \div 1000) \div 3600) % 24
  IN OrderByHour({ [ h |-> n,
                     hour |-> HourOf((CHOOSE x \in sel : HourNumber(x) = n).timestamp),
                     page_views |-> Cardinality({x \in sel : HourNumber(x) = n}),
                     unique_visitors |->
                       Cardinality({x.session_hash : x \in {y \in sel : HourNumber(y) = n}}) ] :
                   n \in {HourNumber(e) : e \in sel} })

(* ------------------------------- stats.js ----------------------------- *)

\* parseTimeRange (lines 13-28) on the sample periods
parseTimeRange(period, dateNow) ==
  LET duration == CASE period = "1h" -> 3600000
                    [] period = "24h" -> 86400000
                    [] OTHER -> 7 * 86400000
  IN [startTime |-> dateNow - duration, endTime |-> dateNow]

\* parseInt(url.searchParams.get('limit') ?? '') || default on the sample
\* texts: NaN and 0 give the default
limitOr(param, default) ==
  CASE param = "-1" -> -1
    [] param = "1" -> 1
    [] param = "3" -> 3
    [] param = "1000" -> 1000
    [] OTHER -> default

MathMin(a, b) == IF a < b THEN a ELSE b

\* i.toString().padStart(2, '0')
padStart(i) == IF i < 10 THEN "0" \o ToString(i) ELSE ToString(i)

\* returns the rows of getHourlyStats as they are
hourly_Sparse(rows, date) == getHourlyStats(rows, date)

\* the hours of the case 'hourly' of handleStats (lines 126-138)
hourly(rows, date) ==
  LET hourlyData == getHourlyStats(rows, date)
      Found(hour) == SelectSeq(hourlyData, LAMBDA h : h.hour = hour)
  IN [ i \in 1..24 |->
         LET hour == padStart(i - 1)
         IN [ hour |-> hour,
              page_views |-> IF Found(hour) = << >> THEN 0 ELSE Found(hour)[1].page_views,
              unique_visitors |->
                IF Found(hour) = << >> THEN 0 ELSE Found(hour)[1].unique_visitors ] ]

\* handleStats (lines 39-170) for the list endpoints and the hourly one:
\* the bodies its 200 response may carry (without the timestamp)
handleStats(rows, endpoint, period, limit, date, dateNow) ==
  LET range == parseTimeRange(period, dateNow)
  IN CASE endpoint = "pages" ->
            { [period |-> period, rows |-> r] :
                r \in getTopPages(rows, range.startTime, range.endTime,
                                  MathMin(limitOr(limit, ListDefault), ListCap)) }
       [] endpoint = "referrers" ->
            { [period |-> period, rows |-> r] :
                r \in getTopReferrers(rows, range.startTime, range.endTime,
                                      MathMin(limitOr(limit, ListDefault), ListCap)) }
       [] endpoint = "campaigns" ->
            { [period |-> period, rows |-> r] :
                r \in getCampaignStats(rows, range.startTime, range.endTime,
                                       MathMin(limitOr(limit, CampaignDefault), ListCap)) }
       [] endpoint = "hourly" ->
            LET day == IF date = NoParam THEN IsoDate(dateNow) ELSE date
            IN { [date |-> day, hours |-> hourly(rows, day)] }

(* -------------------------- the ingestion buffer ---------------------- *)

\* what the storage layer does with one event of a flush
Outcomes == {"ok", "insertThrows", "upsertThrows"}

\* one try around the whole loop: the first exception ends the batch
RECURSIVE FlushLoop_Abort(_, _, _, _)
FlushLoop_Abort(batch, outcomes, st, dateNow) ==
  IF batch = <<>> THEN st
  ELSE LET event == Head(batch)
           o == Head(outcomes)
           called == [st EXCEPT !.attempts = Append(@, event.rid)]
       IN IF o = "insertThrows" THEN [called EXCEPT !.threw = TRUE]
          ELSE IF o = "upsertThrows"
          THEN [called EXCEPT !.db = insertEvent(@, event), !.threw = TRUE]
          ELSE FlushLoop_Abort(Tail(batch), Tail(outcomes),
                 [called EXCEPT !.db = updateActiveVisitor(insertEvent(@, event),
                     event.session_hash, event.page_url, event.country, dateNow)],
                 dateNow)

\* the loop of flushEvents (lines 16-23) over the swept events; st holds the
\* tables, the events passed to insertEvent so far and whether an exception
\* has left the loop
RECURSIVE FlushLoop(_, _, _, _)
FlushLoop(batch, outcomes, st, dateNow) ==
  IF batch = <<>> THEN st
  ELSE LET event == Head(batch)
           o == Head(outcomes)
           called == [st EXCEPT !.attempts = Append(@, event.rid)]
           inserted == IF o = "insertThrows" THEN called
                       ELSE [called EXCEPT !.db = insertEvent(@, event)]
           upserted == IF o = "ok"
                       THEN [inserted EXCEPT !.db =
                               updateActiveVisitor(@, event.session_hash,
                                                   event.page_url, event.country, dateNow)]
                       ELSE inserted
       IN FlushLoop(Tail(batch), Tail(outcomes), upserted, dateNow)

\* iterates over the queue without splicing it
flushEvents_NoSplice(queue, outcomes, st, dateNow) ==
  IF Len(queue) = 0 THEN [st EXCEPT !.queue = queue]
  ELSE [FlushLoop(queue, outcomes, st, dateNow) EXCEPT !.queue = queue]

\* sweeps the queue from its end (pop instead of splice)
flushEvents_Reversed(queue, outcomes, st, dateNow) ==
  IF Len(queue) = 0 THEN [st EXCEPT !.queue = queue]
  ELSE [FlushLoop([i \in DOMAIN queue |-> queue[Len(queue) + 1 - i]], outcomes, st, dateNow)
          EXCEPT !.queue = <<>>]

\* flushEvents: the state after the call, with the queue it leaves
flushEvents(queue, outcomes, st, dateNow) ==
  IF Len(queue) = 0 THEN [st EXCEPT !.queue = queue]
  ELSE [FlushLoop(queue, outcomes, st, dateNow) EXCEPT !.queue = <<>>]

(* -------------------------------- state ------------------------------- *)

VARIABLES
  now,              \* Date.now()
  exited,           \* process.exit was called
  reqs,             \* the collect requests: the closure of handleCollect and its response
  eventQueue,       \* collect.js: eventQueue
  flushTimer,       \* collect.js: flushTimer (0 is null)
  timers,           \* the flush timers armed with setTimeout and not yet fired
  nextTimer,        \* the identity of the next Timeout object
  events,           \* table events
  nextEventId,      \* AUTOINCREMENT of events.id
  active_visitors,  \* table active_visitors
  stats_hourly,     \* table stats_hourly
  aggDue,           \* the instant the aggregation interval is due next
  enqueued,         \* history: the requests whose event was pushed, in order
  attempts,         \* history: the requests whose event was passed to insertEvent, in order
  ingested,         \* history: every row ever inserted into events
  threw,            \* history: an exception left flushEvents
  quiet,            \* history: a cycle has run and no row was inserted since
  env,              \* process.env: the retention settings
  stats_daily,      \* table stats_daily
  sweepDue,         \* the instant the cleanup interval is due next
  cycleLog,         \* the outcome of the interval callback that ran last
  failedAt,         \* history: the statement that threw in the aggregation cycle
                    \* that ran last
  visits,           \* history: per fingerprint, the second of its last upsert and
                    \* the greatest page_count its row has held
  requests,         \* rateLimit.js: the map requests, key -> timestamps
  admitted,         \* history: the requests the limiters passed to next() within
                    \* the last window
  last,             \* history: the request handleRequest served last, at this instant
  refusal,          \* history: the request a limiter answered 429 last, within the
                    \* last window
  authToken,        \* process.env.AUTH_TOKEN
  corsOrigins,      \* process.env.CORS_ORIGINS, split at its commas
  input,            \* the argument of the call of validateCollectData under check
  output,           \* the value that call returned
  hashes,           \* history: the calls of hashSession and their values
  answer            \* history: the query of the stats API made last since an event
                    \* was stored, and what it returned

vars == << now, exited, reqs, eventQueue, flushTimer, timers, nextTimer, events,
           nextEventId, active_visitors, stats_hourly, aggDue, enqueued, attempts,
           ingested, threw, quiet, env, stats_daily, sweepDue, cycleLog, failedAt, visits,
           requests, admitted, last, refusal, authToken, corsOrigins, input, output, hashes,
           answer >>

bufferVars == << eventQueue, flushTimer, timers, nextTimer, enqueued >>
dbVars == << events, nextEventId, active_visitors, ingested, attempts, threw, visits >>
confVars == << env, stats_daily, sweepDue, cycleLog, failedAt >>
limiterVars == << requests, admitted, last, refusal, authToken, corsOrigins >>
callVars == << input, output, hashes, answer >>

(* ------------------------------- inputs ------------------------------- *)

Methods == {"POST", "GET", "OPTIONS"}

NoHeaders == [cf_ipcountry |-> NoHeader, x_country_code |-> NoHeader,
              x_forwarded_for |-> NoHeader, x_real_ip |-> NoHeader,
              cf_connecting_ip |-> NoHeader]

\* the connections requests arrive on, their headers and socket address:
\* one through a reverse proxy on the same host, three direct ones from the
\* host itself, a private network and the internet, and two through a CDN
\* that names the country
Conns == << [headers |-> [NoHeaders EXCEPT !.x_forwarded_for = "1.2.3.4"],
             remoteAddress |-> "127.0.0.1"],
            [headers |-> NoHeaders, remoteAddress |-> "127.0.0.1"],
            [headers |-> NoHeaders, remoteAddress |-> "10.0.0.7"],
            [headers |-> NoHeaders, remoteAddress |-> "8.8.8.8"],
            [headers |-> [NoHeaders EXCEPT !.cf_ipcountry = "DE"], remoteAddress |-> "8.8.8.8"],
            [headers |-> [NoHeaders EXCEPT !.cf_ipcountry = "DE"], remoteAddress |-> "10.0.0.7"] >>

\* the connection through the reverse proxy
Proxied == {1}

\* the lengths of the chunks of a body: the largest body that is accepted
\* and the smallest that is not
ChunkSizes == {MAX_BODY_SIZE, MAX_BODY_SIZE + 1}

NoData == [url |-> JsUndefined, sid |-> JsUndefined, ref |-> JsUndefined,
           scr |-> JsUndefined, tz |-> JsUndefined, ts |-> JsUndefined,
           evt |-> JsUndefined, props |-> JsUndefined, utm_source |-> JsUndefined,
           utm_medium |-> JsUndefined, utm_campaign |-> JsUndefined,
           utm_term |-> JsUndefined, utm_content |-> JsUndefined]

\* the JSON objects clients send: a pageview, and objects with one, two and
\* four fields that fail validation
ValidData == [NoData EXCEPT !.url = JsStr("https://ex.com/a", 16), !.sid = JsStr("s1", 2)]
DataSamples ==
  { ValidData,
    [ValidData EXCEPT !.sid = JsUndefined],
    [ValidData EXCEPT !.url = JsStr("invalid-url", 11), !.scr = JsStr("bad", 3)],
    [ValidData EXCEPT !.url = JsStr("invalid-url", 11), !.sid = JsStr("<script>", 8),
                      !.scr = JsStr("bad", 3), !.ts = JsStr("not-a-number", 12)] }

\* pageviews of two sessions and a custom event, stamped by the client with
\* two instants of the second hour after the origin
AggData ==
  { [ValidData EXCEPT !.ts = JsNum(HourMs)],
    [ValidData EXCEPT !.ts = JsNum(HourMs + TickMs)],
    [ValidData EXCEPT !.ts = JsNum(HourMs + TickMs), !.sid = JsStr("s2", 2)],
    [ValidData EXCEPT !.ts = JsNum(HourMs + TickMs), !.evt = JsStr("signup", 6)] }

\* the request bodies: text that is not JSON, the text null, a JSON object
Bodies ==
  {[json |-> "malformed", data |-> NoData], [json |-> "null", data |-> NoData]}
  \cup {[json |-> "object", data |-> d] : d \in DataSamples}

AggBodies == {[json |-> "object", data |-> d] : d \in AggData}

\* pageviews without a timestamp and with timestamps at and around the two
\* ends of the accepted range: 2020-01-01 and a day after the start
TsData ==
  { [ValidData EXCEPT !.ts = v] :
      v \in { JsUndefined, JsNum(minTime), JsNum(minTime - 1),
              JsNum(StartNow + DayMs), JsNum(StartNow + DayMs + TickMs) } }

TsBodies == {[json |-> "object", data |-> d] : d \in TsData}

\* the pageview of two sessions
GeoBodies ==
  {[json |-> "object", data |-> [ValidData EXCEPT !.sid = JsStr(s, 2)]] : s \in {"s1", "s2"}}

\* the events handed to the storage layer: two pageviews and a custom event
\* stamped in the second hour after the origin
StoreData ==
  { [ValidData EXCEPT !.ts = JsNum(HourMs)],
    [ValidData EXCEPT !.ts = JsNum(HourMs + TickMs), !.sid = JsStr("s2", 2)],
    [ValidData EXCEPT !.ts = JsNum(HourMs), !.evt = JsStr("signup", 6)] }

\* the retention settings: none, those of the README, those of the examples
\* of docs/configuration.md
Envs ==
  { NoEnv,
    [RAW_DATA_RETENTION |-> JsStr("24", 2), AGGREGATED_DATA_RETENTION |-> JsStr("8760", 4)],
    [RAW_DATA_RETENTION |-> JsStr("48", 2), AGGREGATED_DATA_RETENTION |-> JsStr("48", 2)] }

\* rows the database file holds from earlier runs: buckets of 2020-01-02
\* 00:00, of three days before it and of 366 days before it
HourlySamples ==
  { [rowid |-> 1, hour |-> SqlTime(DaySec), page_views |-> 5, unique_visitors |-> 2],
    [rowid |-> 2, hour |-> SqlTime(DaySec - 3 * DaySec), page_views |-> 7, unique_visitors |-> 3],
    [rowid |-> 3, hour |-> SqlTime(DaySec - 366 * DaySec), page_views |-> 9, unique_visitors |-> 4] }
DailySamples ==
  { [date |-> SqlTime(0), page_views |-> 5, unique_visitors |-> 2],
    [date |-> SqlTime(0 - 3), page_views |-> 7, unique_visitors |-> 3],
    [date |-> SqlTime(0 - 366), page_views |-> 9, unique_visitors |-> 4] }

\* the arguments of the direct calls of updateActiveVisitor: two
\* fingerprints, the first on two pages from two countries
VisitSamples ==
  { << hashSession("s1", "1.2.3.4", StartNow), "/a", "Unknown" >>,
    << hashSession("s1", "1.2.3.4", StartNow), "/b", "Germany" >>,
    << hashSession("s2", "1.2.3.4", StartNow), "/a", "Unknown" >> }

\* the clock step of the runs that watch the active visitors: half the window
ElapseMs == (ActiveWindowSec * 1000) \div 2

\* the fields of the payload, in the order validateCollectData checks them
Fields ==
  << "url", "sid", "ref", "scr", "tz", "ts", "evt", "props", "utm_source",
     "utm_medium", "utm_campaign", "utm_term", "utm_content" >>

\* the fields after the two required ones
OptionalFields == {Fields[i] : i \in 3..13}

\* per field, a value its validator accepts
GoodData ==
  [ url |-> JsStr("https://ex.com/a", 16), sid |-> JsStr("s1", 2),
    ref |-> JsStr("https://google.com", 18), scr |-> JsStr("1920x1080", 9),
    tz |-> JsStr("Europe/Dublin", 13), ts |-> JsNum(StartNow),
    evt |-> JsStr("signup", 6), props |-> JsObj(12),
    utm_source |-> JsStr("news", 4), utm_medium |-> JsStr("email", 5),
    utm_campaign |-> JsStr("spring", 6), utm_term |-> JsStr("shoes", 5),
    utm_content |-> JsStr("banner", 6) ]

\* per field, a value its validator rejects: of the wrong type, of the
\* wrong format or one character too long
BadData ==
  [ url |-> JsStr("invalid-url", 11), sid |-> JsStr("<script>", 8),
    ref |-> JsNum(123), scr |-> JsStr("1920-1080", 9),
    tz |-> JsStr("(a long zone)", MAX_TIMEZONE_LENGTH + 1),
    ts |-> JsStr("2024-01-01", 10),
    evt |-> JsNum(1), props |-> JsArr(2),
    utm_source |-> JsStr("(a long source)", MAX_UTM_LENGTH + 1), utm_medium |-> JsNum(7),
    utm_campaign |-> JsObj(2), utm_term |-> JsStr("(a long term)", MAX_UTM_LENGTH + 1),
    utm_content |-> JsNum(0) ]

\* the payloads that hold, per field, the accepted or the rejected value
GridData ==
  { [f \in DOMAIN GoodData |-> IF f \in bad THEN BadData[f] ELSE GoodData[f]] :
      bad \in SUBSET DOMAIN GoodData }

\* the values of a field that is not there
AbsentValues == {JsNull, JsUndefined, JsStr("", 0)}

\* the pageviews with one optional field sent as null, as undefined or as ''
AbsentData == {[ValidData EXCEPT ![f] = v] : f \in OptionalFields, v \in AbsentValues}

\* the paths clients ask for
Paths ==
  { "/api/collect", "/api/stats/overview", "/api/export", "/health", "/api/login",
    "/api/logout", "/tracker.min.js", "/dashboard", "/favicon.ico" }

\* no Cookie header; a Cookie header is the sequence of its name=value pairs
NoCookie == << >>

\* the Authorization headers clients send: none, the token and another one
\* as Bearer credentials, the bare token, and the token under another scheme
Authorizations == {NoHeader, "Bearer secret", "Bearer wrong", "secret", "Basic secret"}

\* the Cookie headers clients send: none, the token and another value as
\* mm_token, the token after another cookie, the token under another name,
\* and mm_token twice with the token first
Cookies ==
  { NoCookie,
    << [name |-> "mm_token", value |-> "secret"] >>,
    << [name |-> "mm_token", value |-> "wrong"] >>,
    << [name |-> "theme", value |-> "dark"], [name |-> "mm_token", value |-> "secret"] >>,
    << [name |-> "session", value |-> "secret"] >>,
    << [name |-> "mm_token", value |-> "secret"], [name |-> "mm_token", value |-> "wrong"] >> }

\* AUTH_TOKEN is not set
NoToken == ""

\* the settings of AUTH_TOKEN: none, and a token
Tokens == {NoToken, "secret"}

\* the requests the server gets from a client behind the proxy: GETs for
\* every path, without credentials and with the token as Bearer
\* authorization, and a POST for the collection endpoint
Requests ==
  { [path |-> p, method |-> "GET", conn |-> 1, authorization |-> a, cookie |-> NoCookie,
     origin |-> NoHeader] :
      p \in Paths, a \in {NoHeader, "Bearer secret"} }
  \cup
  { [path |-> "/api/collect", method |-> "POST", conn |-> 1, authorization |-> NoHeader,
     cookie |-> NoCookie, origin |-> NoHeader] }

\* a path of every route that asks for the token, and of the public ones
RoutePaths ==
  { "/api/stats/overview", "/api/export", "/dashboard", "/dashboard/app.js",
    "/api/collect", "/tracker.min.js", "/health", "/favicon.ico" }

\* the requests of that client for these paths with one of these headers,
\* or with a good one beside a bad one
Credentialed ==
  { [path |-> p, method |-> "GET", conn |-> 1, authorization |-> h[1], cookie |-> h[2],
     origin |-> NoHeader] :
      p \in RoutePaths,
      h \in (Authorizations \X {NoCookie}) \cup ({NoHeader} \X Cookies) \cup
             { << "Bearer wrong", << [name |-> "mm_token", value |-> "secret"] >> >>,
               << "secret", << [name |-> "session", value |-> "secret"] >> >> } }

\* the requests for the endpoints behind a limiter, from that client and
\* from a client on the internet
Limited ==
  { [path |-> p, method |-> "GET", conn |-> c, authorization |-> NoHeader,
     cookie |-> NoCookie, origin |-> NoHeader] :
      p \in {"/api/collect", "/api/stats/overview", "/api/export"}, c \in {1, 4} }

\* one client more than the map may hold keys before it is swept: the
\* client behind the proxy and clients on the internet and on the local
\* network
Clients == {<< 1, 4, 3 >>[i] : i \in 1..(MaxKeys + 1)}

\* the requests of these clients for the stats API, and of the first of
\* them for the collection endpoint
Recovering ==
  { req \in [path : {"/api/collect", "/api/stats/overview"}, method : {"GET"},
             conn : Clients, authorization : {NoHeader}, cookie : {NoCookie},
             origin : {NoHeader}] :
      req.path = "/api/collect" => req.conn = 1 }

\* CORS_ORIGINS is not set
NoOrigins == << >>

\* the settings of CORS_ORIGINS: none, '*', one origin, and
\* 'https://mysite.com, ,https://blog.mysite.com'
CorsSettings ==
  { NoOrigins, << "*" >>, << "https://mysite.com" >>,
    << "https://mysite.com", " ", "https://blog.mysite.com" >> }

\* the Origin headers of requests: none, a listed origin, and a foreign one
Origins == {NoHeader, "https://mysite.com", "https://evil.example"}

\* the requests of pages of these origins for the three API endpoints
CrossOrigin ==
  { [path |-> p, method |-> m, conn |-> 1, authorization |-> NoHeader, cookie |-> NoCookie,
     origin |-> o] :
      p \in {"/api/collect", "/api/stats/overview", "/api/export"}, m \in {"GET", "OPTIONS"},
      o \in Origins }

\* the events of the runs that query the statistics: pageviews of three
\* pages by two sessions, stamped in the second hour of the first day, at
\* the first instant of the second day, an hour later and on arrival, one
\* with a referrer and one of a campaign, and a custom event
QueryData ==
  { [ValidData EXCEPT !.ts = JsNum(HourMs)],
    [ValidData EXCEPT !.url = JsStr("https://ex.com/b", 16), !.sid = JsStr("s2", 2),
                      !.ts = JsNum(DayMs), !.ref = JsStr("https://google.com", 18)],
    [ValidData EXCEPT !.url = JsStr("https://ex.com/c", 16), !.ts = JsNum(DayMs + HourMs),
                      !.utm_source = JsStr("news", 4)],
    [ValidData EXCEPT !.url = JsStr("https://google.com", 18)],
    [ValidData EXCEPT !.sid = JsStr("s2", 2), !.ts = JsNum(HourMs), !.evt = JsStr("signup", 6)] }

\* the events of an earlier run that the table holds when the process
\* starts: two pageviews of one page, sent with and without a query string
\* in the second hour of the first day by one session
EarlierData ==
  << [ValidData EXCEPT !.ts = JsNum(HourMs)],
     [ValidData EXCEPT !.url = JsStr("https://ex.com/a?x=1", 20), !.ts = JsNum(HourMs + 1000)] >>

EarlierRows ==
  { EventRow(i, NewEvent(i, EarlierData[i], Conns[1], HourMs + TickMs)) : i \in DOMAIN EarlierData }

\* the periods the query functions are called with: one before every event,
\* the second hour of the first day, the first day, the second day, and
\* the first two days
Ranges ==
  { << 0, 1000 >>, << HourMs, 2 * HourMs >>, << 0, DayMs >>, << DayMs, 2 * DayMs >>,
    << 0, 2 * DayMs >> }

\* the limits getTopPages is called with
Limits == {1, 10}

\* the list endpoints of the stats API and the parameters of the requests
ListEndpoints == {"pages", "referrers", "campaigns"}
Periods == {"24h", "7d"}
LimitParams == {NoParam, "0", "-1", "1", "1000"}
DateParams == {NoParam, "2020-01-01", "2020-01-02", "garbage"}

\* the arguments of the direct calls of hashSession: two session ids from
\* two addresses
HashSamples == {"s1", "s2"} \X {"1.2.3.4", "10.0.0.7"}

\* the clock step of the runs that watch the fingerprint: ten minutes,
\* starting twenty minutes before midnight
MinutesMs == 10 * 60 * 1000
NearMidnight == 2 * DayMs - 2 * MinutesMs

\* the arguments of the direct calls of validateCollectData
CollectInputs == GridData \cup AbsentData

(* -------------------------------- Init -------------------------------- *)

\* no request was handled so far
NoRequest ==
  [ path |-> "(none)", authorization |-> "", cookie |-> << >>, origin |-> "", ip |-> "(none)",
    at |-> 0, limiter |-> "(none)", status |-> 0, error |-> "", handler |-> "(none)",
    allowOrigin |-> "" ]

\* no request was answered 429 so far
NoRefusal == [limiter |-> "(none)", ip |-> "(none)", at |-> 0]

\* the map of the limiters is empty when the module is loaded (line 1), and
\* the server serves everybody unless a token is configured
LimiterInit ==
  /\ requests = [k \in {} |-> <<>>]
  /\ admitted = {}
  /\ last = NoRequest
  /\ refusal = NoRefusal

\* validateCollectData was not called
NotCalled == [valid |-> FALSE, errors |-> << "(not called)" >>]

\* no query was made
NoAnswer == [call |-> [fn |-> "(none)"], value |-> << >>]

CallInit ==
  /\ input = NoData
  /\ output = NotCalled
  /\ hashes = {}
  /\ answer = NoAnswer

\* the process right after its start at the instant start, before any request
BootedAt(start) ==
  /\ now = start
  /\ exited = FALSE
  /\ reqs = <<>>
  /\ eventQueue = <<>>
  /\ flushTimer = 0
  /\ timers = {}
  /\ nextTimer = 1
  /\ events = {}
  /\ nextEventId = 1
  /\ active_visitors = {}
  /\ stats_hourly = {}
  /\ aggDue = start + HourMs
  /\ enqueued = <<>>
  /\ attempts = <<>>
  /\ ingested = {}
  /\ threw = FALSE
  /\ quiet = FALSE
  /\ env = NoEnv
  /\ stats_daily = {}
  /\ sweepDue = start + DayMs
  /\ cycleLog = "none"
  /\ failedAt = "none"
  /\ visits = {}
  /\ LimiterInit

Booted == BootedAt(StartNow) /\ authToken = NoToken /\ corsOrigins = NoOrigins

Init == Booted /\ CallInit

(* ------------------------------ handleCollect ------------------------- *)

Response(status, error, details) == [status |-> status, error |-> error, details |-> details]

\* the closure and the response handleCollect leaves behind when it returns
Listening(method, conn) ==
  [ method |-> method, conn |-> conn,
    open |-> method = "POST",
    bodySize |-> 0, aborted |-> FALSE,
    late |-> FALSE, failed |-> {}, data |-> NoData,
    res |-> IF method = "OPTIONS" THEN << Response(204, "", <<>>) >>
            ELSE IF method # "POST"
            THEN << Response(405, "Method not allowed", <<>>) >>
            ELSE <<>> ]

\* handleCollect up to the registration of the data and end handlers
\* (lines 70-88)
StartRequest(method, conn) ==
  /\ ~exited
  /\ Len(reqs) < MaxRequests
  /\ reqs' = Append(reqs, Listening(method, conn))
  /\ UNCHANGED << limiterVars, callVars, now, exited, bufferVars, dbVars, stats_hourly, aggDue, quiet, confVars >>

\* without the check of aborted at the head of the handler
DataChunk_NoAbortedGuard(r, length) ==
  /\ ~exited
  /\ r \in DOMAIN reqs
  /\ reqs[r].open
  /\ ~reqs[r].late
  /\ reqs' = [reqs EXCEPT ![r] =
       IF @.bodySize + length > MAX_BODY_SIZE
       THEN [@ EXCEPT !.bodySize = @ + length, !.aborted = TRUE,
                      !.late = reqs[r].aborted,
                      !.res = Append(@, Response(413, "Request too large", <<>>))]
       ELSE [@ EXCEPT !.bodySize = @ + length]]
  /\ UNCHANGED << limiterVars, callVars, now, exited, bufferVars, dbVars, stats_hourly, aggDue, quiet, confVars >>

\* req.on('data') (lines 90-102); late records that a chunk came after the
\* request was aborted, and the chunks after that one, which the handler
\* drops in the same way, are not drawn
DataChunk(r, length) ==
  /\ ~exited
  /\ r \in DOMAIN reqs
  /\ reqs[r].open
  /\ ~reqs[r].late
  /\ reqs' = [reqs EXCEPT ![r] =
       IF @.aborted THEN [@ EXCEPT !.late = TRUE]
       ELSE IF @.bodySize + length > MAX_BODY_SIZE
       THEN [@ EXCEPT !.bodySize = @ + length, !.aborted = TRUE,
                      !.res = Append(@, Response(413, "Request too large", <<>>))]
       ELSE [@ EXCEPT !.bodySize = @ + length]]
  /\ UNCHANGED << limiterVars, callVars, now, exited, bufferVars, dbVars, stats_hourly, aggDue, quiet, confVars >>

\* without the check of the handle
scheduleFlush_Always(handle, armed, fresh) ==
  [flushTimer |-> fresh, timers |-> armed \cup {fresh}]

\* scheduleFlush (lines 26-32): the handle and the armed timers after the call
scheduleFlush(handle, armed, fresh) ==
  IF handle # 0 THEN [flushTimer |-> handle, timers |-> armed]
  ELSE [flushTimer |-> fresh, timers |-> armed \cup {fresh}]

\* the messages of the fields of data that fail their validator
FailedFields(data, dateNow) ==
  {FieldResults(data, dateNow)[i] : i \in 1..13} \ {Ok}

\* req.on('end') (lines 104-153); body is the text the chunks add up to
EndRequest(r, body) ==
  /\ ~exited
  /\ r \in DOMAIN reqs
  /\ reqs[r].open
  /\ LET req == reqs[r]
         validation == validateCollectData(body.data, now)
         sched == scheduleFlush(flushTimer, timers, nextTimer)
     IN IF req.aborted
        THEN /\ reqs' = [reqs EXCEPT ![r].open = FALSE]
             /\ UNCHANGED bufferVars
        ELSE IF body.json # "object"
        THEN \* JSON.parse throws, or data.url of null throws
             /\ reqs' = [reqs EXCEPT ![r].open = FALSE,
                          ![r].res = Append(@, Response(400, "Invalid request", <<>>))]
             /\ UNCHANGED bufferVars
        ELSE IF ~validation.valid
        THEN /\ reqs' = [reqs EXCEPT ![r].open = FALSE, ![r].data = body.data,
                          ![r].failed = FailedFields(body.data, now),
                          ![r].res = Append(@, Response(400, "Invalid data", validation.errors))]
             /\ UNCHANGED bufferVars
        ELSE /\ eventQueue' = Append(eventQueue, NewEvent(r, body.data, Conns[req.conn], now))
             /\ flushTimer' = sched.flushTimer
             /\ timers' = sched.timers
             /\ nextTimer' = IF sched.flushTimer = flushTimer THEN nextTimer ELSE nextTimer + 1
             /\ enqueued' = Append(enqueued, r)
             /\ reqs' = [reqs EXCEPT ![r].open = FALSE, ![r].data = body.data,
                          ![r].res = Append(@, Response(204, "", <<>>))]
  /\ UNCHANGED << limiterVars, callVars, now, exited, dbVars, stats_hourly, aggDue, quiet, confVars >>

(* ----------------------------- rate limiting -------------------------- *)

\* the window of both limiters of the server
WindowMs == 60000

\* collectRateLimit and apiRateLimit
Limiters == {"collect", "api"}

\* the maxRequests a limiter was created with
Limit(limiter) == IF limiter = "collect" THEN CollectLimit ELSE ApiLimit

\* the address the limiter counts a request under (lines 5-8)
clientIp(conn) ==
  IF conn.headers.x_forwarded_for # NoHeader THEN conn.headers.x_forwarded_for
  ELSE IF conn.headers.x_real_ip # NoHeader THEN conn.headers.x_real_ip
  ELSE conn.remoteAddress

\* `${ip}:${req.path}` (line 11): the request of the http server has a url
\* and no property path, so the template spells undefined
requestKey(ip) == ip \o ":" \o "undefined"

\* v.filter(t => t > oldestAllowed)
Recent(timestamps, oldestAllowed) == SelectSeq(timestamps, LAMBDA t : t > oldestAllowed)

\* deletes a key that holds a timestamp outside the window, with the
\* timestamps of the window it holds
sweep_WholeKeys(map, oldestAllowed) ==
  LET kept == {k \in DOMAIN map : Recent(map[k], oldestAllowed) = map[k] /\ map[k] # <<>>}
  IN [k \in kept |-> map[k]]

\* the sweep of the map (lines 35-43)
sweep(map, oldestAllowed) ==
  LET kept == {k \in DOMAIN map : Recent(map[k], oldestAllowed) # <<>>}
  IN [k \in kept |-> Recent(map[k], oldestAllowed)]

\* admits a request while the window holds maxRequests
rateLimiter_OffByOne(map, windowMs, maxRequests, key, dateNow) ==
  LET had == [k \in DOMAIN map \cup {key} |-> IF k \in DOMAIN map THEN map[k] ELSE <<>>]
      timestamps == Recent(had[key], dateNow - windowMs)
      pushed == [had EXCEPT ![key] = Append(timestamps, dateNow)]
  IN IF Len(timestamps) > maxRequests
     THEN [next |-> FALSE, requests |-> had]
     ELSE [next |-> TRUE,
           requests |-> IF Cardinality(DOMAIN pushed) > MaxKeys
                        THEN sweep(pushed, dateNow - windowMs) ELSE pushed]

\* the middleware createRateLimiter returns (lines 4-47), run on the map
\* for a request of the given key: whether it calls next(), and the map
\* it leaves
rateLimiter(map, windowMs, maxRequests, key, dateNow) ==
  LET had == [k \in DOMAIN map \cup {key} |-> IF k \in DOMAIN map THEN map[k] ELSE <<>>]
      timestamps == Recent(had[key], dateNow - windowMs)
      pushed == [had EXCEPT ![key] = Append(timestamps, dateNow)]
  IN IF Len(timestamps) >= maxRequests
     THEN [next |-> FALSE, requests |-> had]
     ELSE [next |-> TRUE,
           requests |-> IF Cardinality(DOMAIN pushed) > MaxKeys
                        THEN sweep(pushed, dateNow - windowMs) ELSE pushed]

(* ------------------------------- the server --------------------------- *)

\* parseCookies (auth.js, lines 13-25) read at one name: the value of the
\* last pair of that name, NoHeader (undefined) when there is none
parseCookies(cookieHeader, name) ==
  LET named == SelectSeq(cookieHeader, LAMBDA cookie : cookie.name = name)
  IN IF named = << >> THEN NoHeader ELSE named[Len(named)].value

\* accepts the token in a cookie of any name
isAuthenticated_AnyCookie(req, token) ==
  IF token = NoToken THEN TRUE
  ELSE IF req.authorization = "Bearer " \o token THEN TRUE
  ELSE \E i \in DOMAIN req.cookie : req.cookie[i].value = token

\* isAuthenticated (auth.js, lines 32-50): startsWith('Bearer ') and
\* slice(7) === token say that the header is 'Bearer ' followed by the token
isAuthenticated(req, token) ==
  IF token = NoToken THEN TRUE
  ELSE IF req.authorization = "Bearer " \o token THEN TRUE
  ELSE parseCookies(req.cookie, "mm_token") = token

\* the branch of handleRequest a path takes, on the sample paths
Route(path) ==
  CASE path = "/api/collect" -> "collect"
    [] path = "/tracker.min.js" -> "tracker"
    [] path = "/health" -> "health"
    [] path = "/api/login" -> "login"
    [] path = "/api/logout" -> "logout"
    [] path = "/api/auth/status" -> "status"
    [] path \in {"/api/stats/overview", "/api/stats/realtime"} -> "stats"
    [] path = "/api/export" -> "export"
    [] path \in {"/", "/dashboard"} -> "dashboard"
    [] path = "/dashboard/app.js" -> "asset"
    [] OTHER -> "unknown"

\* the routes behind requireAuth
Protected == {"stats", "export", "dashboard", "asset"}

\* the limiter a route is wrapped in
LimiterOf(route) ==
  IF route = "collect" THEN "collect"
  ELSE IF route \in {"stats", "export"} THEN "api"
  ELSE "(none)"

\* the status a route answers with when its handler runs; 0 while the
\* handler waits for the body
Served(route, method, token) ==
  CASE route = "collect" ->
         (IF method = "OPTIONS" THEN 204 ELSE IF method # "POST" THEN 405 ELSE 0)
    [] route = "login" -> (IF token = NoToken THEN 200 ELSE IF method # "POST" THEN 405 ELSE 0)
    [] route = "unknown" -> 404
    [] OTHER -> 200

\* o.trim() on the sample entries
trim(o) == IF o = " " THEN "" ELSE o

\* getAllowedOrigins (security.js, lines 54-58) on the entries of the setting
getAllowedOrigins(origins) ==
  IF origins = NoOrigins \/ origins = << "*" >> THEN << "*" >>
  ELSE SelectSeq([i \in DOMAIN origins |-> trim(origins[i])], LAMBDA o : o # "")

\* setCorsHeaders (security.js, lines 65-79): the Access-Control-Allow-Origin
\* header it sets, NoHeader when it sets none
setCorsHeaders(origins, requestOrigin) ==
  LET allowedOrigins == getAllowedOrigins(origins)
      includes(o) == \E i \in DOMAIN allowedOrigins : allowedOrigins[i] = o
  IN IF includes("*") THEN "*"
     ELSE IF requestOrigin # NoHeader /\ includes(requestOrigin) THEN requestOrigin
     ELSE NoHeader

\* the Access-Control-Allow-Origin header of the response of a handler:
\* handleCollect (collect.js, line 72) and sendJson of handleStats call
\* setCorsHeaders, handleExport writes '*' (export.js, lines 104-117)
AllowOrigin(route, origins, requestOrigin) ==
  CASE route \in {"collect", "stats"} -> setCorsHeaders(origins, requestOrigin)
    [] route = "export" -> "*"
    [] OTHER -> NoHeader

\* the admissions of a limiter for an address at an instant, so far
AdmittedAt(limiter, ip, at) ==
  {a \in admitted : a.limiter = limiter /\ a.ip = ip /\ a.at = at}

\* handleRequest (lines 60-145) on a request, with the middleware and the
\* handler it runs before it returns
HandleRequest(req) ==
  /\ ~exited
  /\ LET route == Route(req.path)
         ip == clientIp(Conns[req.conn])
         allowed == route \notin Protected \/ isAuthenticated(req, authToken)
         limiter == IF allowed THEN LimiterOf(route) ELSE "(none)"
         verdict == rateLimiter(requests, WindowMs, Limit(limiter), requestKey(ip), now)
         seen == [ path |-> req.path, authorization |-> req.authorization,
                   cookie |-> req.cookie, origin |-> req.origin, ip |-> ip, at |-> now,
                   limiter |-> limiter, status |-> 0, error |-> "", handler |-> "(none)",
                   allowOrigin |-> NoHeader ]
     IN IF ~allowed
        THEN \* requireAuth answers
             /\ last' = [seen EXCEPT !.status = 401, !.error = "Unauthorized"]
             /\ UNCHANGED << requests, admitted, refusal, reqs >>
        ELSE IF limiter = "(none)"
        THEN /\ last' = [seen EXCEPT !.status = Served(route, req.method, authToken),
                                     !.handler = route,
                                     !.allowOrigin = AllowOrigin(route, corsOrigins, req.origin)]
             /\ UNCHANGED << requests, admitted, refusal, reqs >>
        ELSE IF ~verdict.next
        THEN /\ last' = [seen EXCEPT !.status = 429, !.error = "Too many requests"]
             /\ requests' = verdict.requests
             /\ refusal' = [limiter |-> limiter, ip |-> ip, at |-> now]
             /\ UNCHANGED << admitted, reqs >>
        ELSE /\ last' = [seen EXCEPT !.status = Served(route, req.method, authToken),
                                     !.handler = route,
                                     !.allowOrigin = AllowOrigin(route, corsOrigins, req.origin)]
             /\ requests' = verdict.requests
             /\ refusal' = refusal
             /\ admitted' = admitted \cup
                  {[ limiter |-> limiter, ip |-> ip, at |-> now,
                     n |-> Cardinality(AdmittedAt(limiter, ip, now)) + 1 ]}
             /\ IF route = "collect"
                THEN /\ Len(reqs) < MaxRequests
                     /\ reqs' = Append(reqs, Listening(req.method, req.conn))
                ELSE UNCHANGED reqs
  /\ UNCHANGED << authToken, corsOrigins, callVars, now, exited, bufferVars, dbVars, stats_hourly,
                  aggDue, quiet, confVars >>

\* the clock advances by half the window of the limiters; the histories
\* keep what lies within the window that ends at the new instant
Wait ==
  /\ ~exited
  /\ now + WindowMs \div 2 <= StartNow + MaxTicks * (WindowMs \div 2)
  /\ now' = now + WindowMs \div 2
  /\ admitted' = {a \in admitted : a.at > now' - WindowMs}
  /\ last' = NoRequest
  /\ refusal' = IF refusal.at > now' - WindowMs THEN refusal ELSE NoRefusal
  /\ UNCHANGED << requests, authToken, corsOrigins, callVars, exited, reqs, bufferVars, dbVars,
                  stats_hourly, aggDue, quiet, confVars >>

(* ------------------------------- flushing ----------------------------- *)

\* the state flushEvents works on
FlushState ==
  [ queue |-> eventQueue,
    db |-> [events |-> events, nextEventId |-> nextEventId,
            active_visitors |-> active_visitors],
    attempts |-> attempts,
    threw |-> threw ]

\* the effect of one call of flushEvents on the queue and the tables
Flushed(outcomes) ==
  LET st == flushEvents(eventQueue, outcomes, FlushState, now)
  IN /\ eventQueue' = st.queue
     /\ events' = st.db.events
     /\ nextEventId' = st.db.nextEventId
     /\ active_visitors' = st.db.active_visitors
     /\ attempts' = st.attempts
     /\ threw' = st.threw
     /\ ingested' = ingested \cup st.db.events
     /\ quiet' = (quiet /\ st.db.events = events)
     /\ visits' = Visited(visits, active_visitors, st.db.active_visitors, now)

\* the callback leaves the handle set
TimerFires_KeepsHandle(t, outcomes) ==
  /\ ~exited
  /\ t \in timers
  /\ timers' = timers \ {t}
  /\ Flushed(outcomes)
  /\ UNCHANGED << limiterVars, callVars, now, exited, reqs, flushTimer, nextTimer, stats_hourly, aggDue, enqueued, confVars >>

\* the callback of the flush timer (lines 28-31)
TimerFires(t, outcomes) ==
  /\ ~exited
  /\ t \in timers
  /\ timers' = timers \ {t}
  /\ Flushed(outcomes)
  /\ flushTimer' = 0
  /\ UNCHANGED << limiterVars, callVars, now, exited, reqs, nextTimer, stats_hourly, aggDue, enqueued, confVars >>

\* the handler exits without flushing
Signal_NoFlush(sig, outcomes) ==
  /\ ~exited
  /\ sig \in {"SIGINT", "SIGTERM"}
  /\ exited' = TRUE
  /\ UNCHANGED << limiterVars, callVars, now, reqs, bufferVars, dbVars, stats_hourly, aggDue, quiet, confVars >>

\* process.on('SIGINT') and process.on('SIGTERM') of collect.js (lines
\* 156-164), registered before those of index.js and ending the process
Signal(sig, outcomes) ==
  /\ ~exited
  /\ sig \in {"SIGINT", "SIGTERM"}
  /\ Flushed(outcomes)
  /\ exited' = TRUE
  /\ UNCHANGED << limiterVars, callVars, now, reqs, flushTimer, timers, nextTimer, stats_hourly, aggDue, enqueued, confVars >>

(* ----------------------------- aggregation ---------------------------- *)

\* without the try/catch: the exception of a failed cycle ends the process
Aggregate_Uncaught(ok) ==
  /\ ~exited
  /\ now >= aggDue
  /\ aggDue' = now + HourMs
  /\ LET after == aggregateHourlyStats([events |-> events, stats_hourly |-> stats_hourly], now)
     IN IF ok
        THEN /\ events' = after.events
             /\ stats_hourly' = after.stats_hourly
             /\ quiet' = TRUE
             /\ cycleLog' = "aggregated"
             /\ exited' = exited
        ELSE /\ UNCHANGED << events, stats_hourly, quiet >>
             /\ cycleLog' = "Hourly aggregation failed"
             /\ exited' = TRUE
  /\ UNCHANGED << limiterVars, callVars, now, reqs, bufferVars, nextEventId, active_visitors,
                  ingested, attempts, threw, visits, env, stats_daily, sweepDue, failedAt >>

\* the callback of setInterval(aggregateHourlyStats, 3600000) of index.js;
\* a transaction that throws at one of its statements is rolled back and
\* the error is logged
Aggregate(ok) ==
  /\ ~exited
  /\ now >= aggDue
  /\ aggDue' = now + HourMs
  /\ LET before == [events |-> events, stats_hourly |-> stats_hourly]
         after == aggregateHourlyStats(before, now)
     IN IF ok
        THEN /\ events' = after.events
             /\ stats_hourly' = after.stats_hourly
             /\ quiet' = TRUE
             /\ cycleLog' = "aggregated"
             /\ failedAt' = "none"
        ELSE /\ \E failure \in Failures :
                  \E written \in Interrupted(before, now, failure) :
                    /\ events' = transaction(before, written).events
                    /\ stats_hourly' = transaction(before, written).stats_hourly
                    /\ failedAt' = failure
             /\ quiet' = quiet
             /\ cycleLog' = "Hourly aggregation failed"
  /\ UNCHANGED << limiterVars, callVars, now, exited, reqs, bufferVars, nextEventId, active_visitors,
                  ingested, attempts, threw, visits, env, stats_daily, sweepDue >>

\* the callback of setInterval(cleanupOldData, 86400000) of index.js; the
\* statements are not in a transaction, and an error is logged
Cleanup(outcome) ==
  /\ ~exited
  /\ now >= sweepDue
  /\ sweepDue' = now + DayMs
  /\ LET after == cleanupOldData([stats_daily |-> stats_daily, stats_hourly |-> stats_hourly],
                                env, now, outcome)
     IN /\ stats_daily' = after.stats_daily
        /\ stats_hourly' = after.stats_hourly
  /\ cycleLog' = IF outcome = "ok" THEN "cleaned" ELSE "Cleanup failed"
  /\ UNCHANGED << limiterVars, callVars, now, exited, reqs, bufferVars, dbVars, aggDue, quiet, env,
                  failedAt >>

\* the body of the loop of flushEvents (collect.js, lines 17-22) on one
\* event: insertEvent, then updateActiveVisitor
Store(data, outcome) ==
  /\ ~exited
  /\ Len(attempts) < MaxStored
  /\ LET event == NewEvent(Len(attempts) + 1, data, Conns[1], now)
         st == FlushLoop(<< event >>, << outcome >>, FlushState, now)
     IN /\ events' = st.db.events
        /\ nextEventId' = st.db.nextEventId
        /\ active_visitors' = st.db.active_visitors
        /\ attempts' = st.attempts
        /\ threw' = st.threw
        /\ ingested' = ingested \cup st.db.events
        /\ quiet' = (quiet /\ st.db.events = events)
        /\ visits' = Visited(visits, active_visitors, st.db.active_visitors, now)
  /\ answer' = NoAnswer
  /\ UNCHANGED << limiterVars, input, output, hashes, now, exited, reqs, bufferVars,
                  stats_hourly, aggDue, confVars >>

RECURSIVE Calls(_)
\* the number of calls of updateActiveVisitor a history records
Calls(history) ==
  IF history = {} THEN 0
  ELSE LET h == CHOOSE x \in history : TRUE
       IN h.n + Calls(history \ {h})

\* a call of updateActiveVisitor
Upsert(sessionHash, pageUrl, country) ==
  /\ ~exited
  /\ Calls(visits) < MaxUpserts
  /\ LET db == updateActiveVisitor(FlushState.db, sessionHash, pageUrl, country, now)
     IN /\ active_visitors' = db.active_visitors
        /\ visits' = Visited(visits, active_visitors, db.active_visitors, now)
  /\ UNCHANGED << limiterVars, callVars, now, exited, reqs, bufferVars, events, nextEventId, ingested, attempts,
                  threw, stats_hourly, aggDue, quiet, confVars >>

\* the clock advances by half the window of the active visitors
Elapse ==
  /\ ~exited
  /\ now + ElapseMs <= StartNow + MaxTicks * ElapseMs
  /\ now' = now + ElapseMs
  /\ UNCHANGED << limiterVars, callVars, exited, reqs, bufferVars, dbVars, stats_hourly, aggDue, quiet, confVars >>

\* the clock advances
Tick ==
  /\ ~exited
  /\ now + TickMs <= StartNow + MaxTicks * TickMs
  /\ now' = now + TickMs
  /\ UNCHANGED << limiterVars, callVars, exited, reqs, bufferVars, dbVars, stats_hourly, aggDue, quiet, confVars >>

\* a call of hashSession
Hash(sessionId, ip) ==
  /\ ~exited
  /\ Cardinality(hashes) < MaxCalls
  /\ hashes' = hashes \cup {[ sessionId |-> sessionId, ip |-> ip, at |-> now,
                              hash |-> hashSession(sessionId, ip, now) ]}
  /\ UNCHANGED << limiterVars, input, output, answer, now, exited, reqs, bufferVars, dbVars,
                  stats_hourly, aggDue, quiet, confVars >>

\* the clock advances by ten minutes
Minutes ==
  /\ ~exited
  /\ now + MinutesMs <= NearMidnight + MaxTicks * MinutesMs
  /\ now' = now + MinutesMs
  /\ UNCHANGED << limiterVars, callVars, exited, reqs, bufferVars, dbVars, stats_hourly,
                  aggDue, quiet, confVars >>

\* a call of validateCollectData on the payload (lines 365-402)
Validate ==
  /\ ~exited
  /\ output = NotCalled
  /\ output' = validateCollectData(input, now)
  /\ UNCHANGED << limiterVars, input, hashes, answer, now, exited, reqs, bufferVars, dbVars,
                  stats_hourly, aggDue, quiet, confVars >>

(* ----------------------------- the stats API -------------------------- *)

\* a call of getPageViews
GetPageViews(startTime, endTime) ==
  /\ ~exited
  /\ answer' = [ call |-> [fn |-> "getPageViews", startTime |-> startTime, endTime |-> endTime],
                 value |-> getPageViews(events, startTime, endTime) ]
  /\ UNCHANGED << limiterVars, input, output, hashes, now, exited, reqs, bufferVars, dbVars,
                  stats_hourly, aggDue, quiet, confVars >>

\* a call of getTopPages
GetTopPages(startTime, endTime, limit) ==
  /\ ~exited
  /\ \E rows \in getTopPages(events, startTime, endTime, limit) :
       answer' = [ call |-> [fn |-> "getTopPages", startTime |-> startTime,
                             endTime |-> endTime, limit |-> limit],
                   value |-> rows ]
  /\ UNCHANGED << limiterVars, input, output, hashes, now, exited, reqs, bufferVars, dbVars,
                  stats_hourly, aggDue, quiet, confVars >>

\* a call of getPageViewsWithComparison
Compare(startTime, endTime) ==
  /\ ~exited
  /\ answer' = [ call |-> [fn |-> "getPageViewsWithComparison", startTime |-> startTime,
                            endTime |-> endTime],
                 value |-> getPageViewsWithComparison(events, startTime, endTime) ]
  /\ UNCHANGED << limiterVars, input, output, hashes, now, exited, reqs, bufferVars, dbVars,
                  stats_hourly, aggDue, quiet, confVars >>

\* handleStats on a request for /api/stats/<endpoint>
Stats(endpoint, period, limit, date) ==
  /\ ~exited
  /\ \E body \in handleStats(events, endpoint, period, limit, date, now) :
       answer' = [ call |-> [fn |-> "handleStats", endpoint |-> endpoint, period |-> period,
                             limit |-> limit, date |-> date],
                   value |-> body ]
  /\ UNCHANGED << limiterVars, input, output, hashes, now, exited, reqs, bufferVars, dbVars,
                  stats_hourly, aggDue, quiet, confVars >>

(* ---------------------------- specifications -------------------------- *)

OutcomeSeqs(outcomes) == [1..Len(eventQueue) -> outcomes]

\* the operations of the collection endpoint and its buffer, for requests
\* with the given methods, chunk lengths and bodies and a storage layer with
\* the given outcomes
Collect(methods, lengths, bodies, outcomes) ==
  \/ \E m \in methods, c \in Proxied : StartRequest(m, c)
  \/ \E r \in DOMAIN reqs, n \in lengths : DataChunk(r, n)
  \/ \E r \in DOMAIN reqs, b \in bodies : EndRequest(r, b)
  \/ \E t \in timers, o \in OutcomeSeqs(outcomes) : TimerFires(t, o)
  \/ \E s \in {"SIGINT", "SIGTERM"}, o \in OutcomeSeqs(outcomes) : Signal(s, o)

\* the collection endpoint under every kind of request, at one instant
Next == Collect(Methods, ChunkSizes, Bodies, Outcomes)

Spec == Init /\ [][Next]_vars

\* the flush timer fires: setTimeout callbacks run while the process lives
FairSpec == Spec /\ WF_vars(\E t \in timers, o \in OutcomeSeqs(Outcomes) : TimerFires(t, o))

\* accepted pageviews and custom events over time, with the hourly cycle
AggNext ==
  \/ Collect({"POST"}, {MAX_BODY_SIZE}, AggBodies, {"ok"})
  \/ \E ok \in BOOLEAN : Aggregate(ok)
  \/ Tick

AggSpec == Init /\ [][AggNext]_vars

\* the process 23 hours after its start, with no request so far: both
\* intervals are due in an hour; the database file holds aggregates of
\* earlier runs and the environment holds one of the retention settings
StoreInit ==
  /\ now = StartNow
  /\ exited = FALSE
  /\ reqs = <<>>
  /\ eventQueue = <<>>
  /\ flushTimer = 0
  /\ timers = {}
  /\ nextTimer = 1
  /\ events = {}
  /\ nextEventId = 1
  /\ active_visitors = {}
  /\ stats_hourly = HourlySamples
  /\ aggDue = StartNow + HourMs
  /\ enqueued = <<>>
  /\ attempts = <<>>
  /\ ingested = {}
  /\ threw = FALSE
  /\ quiet = FALSE
  /\ env \in Envs
  /\ stats_daily = DailySamples
  /\ sweepDue = StartNow + HourMs
  /\ cycleLog = "none"
  /\ failedAt = "none"
  /\ visits = {}
  /\ LimiterInit
  /\ authToken = NoToken
  /\ corsOrigins = NoOrigins
  /\ CallInit

\* the storage layer under stored events, the hourly cycle and the daily
\* sweep
StoreNext ==
  \/ \E d \in StoreData : Store(d, "ok")
  \/ \E ok \in BOOLEAN : Aggregate(ok)
  \/ \E o \in SweepOutcomes : Cleanup(o)
  \/ Tick

StoreSpec == StoreInit /\ [][StoreNext]_vars

\* the active visitors under calls of updateActiveVisitor over ten minutes
VisitorNext ==
  \/ \E v \in VisitSamples : Upsert(v[1], v[2], v[3])
  \/ Elapse

VisitorSpec == Init /\ [][VisitorNext]_vars

\* pageviews with and without client timestamps, over time: the requests are
\* POSTs whose bodies stay within the limit, and the storage layer works
TsNext ==
  \/ \E c \in Proxied : StartRequest("POST", c)
  \/ \E r \in DOMAIN reqs, b \in TsBodies : EndRequest(r, b)
  \/ \E t \in timers, o \in OutcomeSeqs({"ok"}) : TimerFires(t, o)
  \/ Tick

TsSpec == Init /\ [][TsNext]_vars

\* the same pageview over every kind of connection: POSTs whose bodies stay
\* within the limit, a storage layer that works
GeoNext ==
  \/ \E c \in DOMAIN Conns : StartRequest("POST", c)
  \/ \E r \in DOMAIN reqs, b \in GeoBodies : EndRequest(r, b)
  \/ \E t \in timers, o \in OutcomeSeqs({"ok"}) : TimerFires(t, o)

GeoSpec == Init /\ [][GeoNext]_vars

\* the server in front of its handlers, with and without a token, over two
\* and a half windows of the limiters
ServerInit ==
  BootedAt(StartNow) /\ authToken \in Tokens /\ corsOrigins = NoOrigins /\ CallInit

ServerNext ==
  \/ \E req \in Requests : HandleRequest(req)
  \/ Wait

ServerSpec == ServerInit /\ [][ServerNext]_vars

\* the routes of the server under requests with and without credentials,
\* with and without a token configured
AuthNext == \E req \in Credentialed : HandleRequest(req)

AuthSpec == ServerInit /\ [][AuthNext]_vars

\* the API endpoints under requests of pages of several origins, for every
\* setting of CORS_ORIGINS
CorsInit ==
  BootedAt(StartNow) /\ authToken = NoToken /\ corsOrigins \in CorsSettings /\ CallInit

CorsNext ==
  \/ \E req \in CrossOrigin : HandleRequest(req)
  \/ Wait

CorsSpec == CorsInit /\ [][CorsNext]_vars

\* the two limiters under requests for the endpoints they guard, from two
\* clients, over two and a half windows
LimiterNext ==
  \/ \E req \in Limited : HandleRequest(req)
  \/ Wait

LimiterSpec == Init /\ [][LimiterNext]_vars

\* the two limiters under the requests of so many clients that the map is
\* swept
RecoverNext ==
  \/ \E req \in Recovering : HandleRequest(req)
  \/ Wait

RecoverSpec == Init /\ [][RecoverNext]_vars

\* the stats API over a table that holds the events of an earlier run and
\* takes more while it is queried
QueryInit ==
  /\ now = StartNow
  /\ exited = FALSE
  /\ reqs = <<>>
  /\ eventQueue = <<>>
  /\ flushTimer = 0
  /\ timers = {}
  /\ nextTimer = 1
  /\ events = EarlierRows
  /\ nextEventId = Len(EarlierData) + 1
  /\ active_visitors = {}
  /\ stats_hourly = {}
  /\ aggDue = StartNow + HourMs
  /\ enqueued = <<>>
  /\ attempts = <<>>
  /\ ingested = EarlierRows
  /\ threw = FALSE
  /\ quiet = FALSE
  /\ env = NoEnv
  /\ stats_daily = {}
  /\ sweepDue = StartNow + DayMs
  /\ cycleLog = "none"
  /\ failedAt = "none"
  /\ visits = {}
  /\ LimiterInit
  /\ authToken = NoToken
  /\ corsOrigins = NoOrigins
  /\ CallInit

QueryNext ==
  \/ \E d \in QueryData : Store(d, "ok")
  \/ \E r \in Ranges : GetPageViews(r[1], r[2])
  \/ \E r \in Ranges, limit \in Limits : GetTopPages(r[1], r[2], limit)
  \/ \E r \in Ranges : Compare(r[1], r[2])
  \/ \E e \in ListEndpoints, p \in Periods, l \in LimitParams : Stats(e, p, l, NoParam)
  \/ \E d \in DateParams : Stats("hourly", "7d", NoParam, d)

QuerySpec == QueryInit /\ [][QueryNext]_vars

\* hashSession under calls around a midnight
HashInit ==
  BootedAt(NearMidnight) /\ authToken = NoToken /\ corsOrigins = NoOrigins /\ CallInit

HashNext ==
  \/ \E a \in HashSamples : Hash(a[1], a[2])
  \/ Minutes

HashSpec == HashInit /\ [][HashNext]_vars

\* validateCollectData under one call on each of the payloads
ValidateInit ==
  Booted /\ input \in CollectInputs /\ output = NotCalled /\ hashes = {} /\ answer = NoAnswer

ValidateNext == Validate

ValidateSpec == ValidateInit /\ [][ValidateNext]_vars

(* ------------------------------- claims ------------------------------- *)

Range(seq) == {seq[i] : i \in DOMAIN seq}
\* the requests of the events of a queue, in order
Rids(queue) == [i \in DOMAIN queue |-> queue[i].rid]
NoDuplicates(seq) == \A i, j \in DOMAIN seq : seq[i] = seq[j] => i = j
\* a flush timer fires in this step
TimerStep == timers' # timers /\ timers' \subseteq timers
\* an event is pushed in this step
EnqueueStep == Len(eventQueue') > Len(eventQueue)
\* flushEvents sweeps a non-empty queue in this step
SweepStep == eventQueue # <<>> /\ eventQueue' = <<>>

\* C1: under fairness of the flush timer every queued event is eventually
\* passed to insertEvent; a timer firing empties the whole queue in one step
\* and clears the handle, and the enqueue after it arms a fresh timer.
C1_EventuallyFlushed ==
  /\ \A r \in 1..MaxRequests :
       (r \in Range(Rids(eventQueue))) ~> (r \in Range(attempts))
  /\ [][ /\ TimerStep => /\ eventQueue' = <<>>
                         /\ flushTimer' = 0
                         /\ attempts' = attempts \o Rids(eventQueue)
         /\ (EnqueueStep /\ flushTimer = 0) =>
               /\ flushTimer' # 0
               /\ flushTimer' \notin timers
               /\ timers' = timers \cup {flushTimer'} ]_vars

\* two timers were armed in turn and both batches were swept
C1_Witness ==
  /\ nextTimer = 3
  /\ Len(attempts) = 2
  /\ timers = {}
  /\ ~exited

\* C2: at most one flush timer is pending, an enqueue while one is pending
\* arms none, and a non-empty queue always has its timer pending.
C2_SingleTimer ==
  /\ [](Cardinality(timers) <= 1)
  /\ [](eventQueue # <<>> => flushTimer # 0 /\ flushTimer \in timers)
  /\ [][(EnqueueStep /\ timers # {}) =>
          (timers' = timers /\ flushTimer' = flushTimer)]_vars

\* a second event joined the queue while the timer of the first was pending
C2_Witness ==
  /\ Len(eventQueue) = 2
  /\ Cardinality(timers) = 1
  /\ nextTimer = 2

\* C3: every event of a swept batch is passed to insertEvent whatever the
\* outcome of the events before it, and no exception leaves flushEvents.
C3_BatchIndependent ==
  /\ [][SweepStep => attempts' = attempts \o Rids(eventQueue)]_vars
  /\ [](~threw)

\* one batch of two events: storing the first failed, the second is stored
C3_Witness ==
  /\ Len(attempts) = 2
  /\ nextTimer = 2
  /\ attempts[1] \notin {e.rid : e \in events}
  /\ attempts[2] \in {e.rid : e \in events}

\* C4: a swept event never returns to the queue and no event is passed to
\* insertEvent twice.
C4_NeverRequeued ==
  /\ NoDuplicates(attempts)
  /\ NoDuplicates(Rids(eventQueue))
  /\ Range(attempts) \cap Range(Rids(eventQueue)) = {}
  /\ Cardinality(events) <= Len(attempts)

\* an event whose insert failed is gone while a later event waits in the queue
C4_Witness ==
  /\ Len(attempts) = 1
  /\ events = {}
  /\ Len(eventQueue) = 1
  /\ ~exited

\* C5: the events passed to insertEvent, over all flushes, are a prefix of
\* the enqueued events in enqueue order.
C5_EnqueueOrder ==
  /\ Len(attempts) <= Len(enqueued)
  /\ attempts = SubSeq(enqueued, 1, Len(attempts))
  /\ enqueued = attempts \o Rids(eventQueue)

\* two events, the later request enqueued first, went through two flushes
C5_Witness ==
  /\ attempts = <<2, 1>>
  /\ nextTimer = 3

\* C6: the signal handler passes every queued event to insertEvent before the
\* process exits, whether or not the flush timer has fired.
C6_ForcedFlush ==
  /\ [](exited => eventQueue = <<>> /\ attempts = enqueued)
  /\ [][(exited' /\ ~exited) => attempts' = attempts \o Rids(eventQueue)]_vars

\* the process exited with the flush timer still pending and the events of
\* the queue passed to insertEvent
C6_Witness ==
  /\ exited
  /\ timers # {}
  /\ Len(attempts) = 2

\* the response a request got last
LastRes(rec) == rec.res[Len(rec.res)]
\* request r is answered in this step
Answered(r) ==
  /\ r \in DOMAIN reqs'
  /\ Len(reqs'[r].res) > (IF r \in DOMAIN reqs THEN Len(reqs[r].res) ELSE 0)
Accepted(rec) == rec.method = "POST" /\ LastRes(rec).status = 204

\* C7: a rejected request leaves the queue and the flush timer unchanged, an
\* event is pushed exactly when a POST is answered 204, and the response to
\* a validation failure lists the message of every failed field.
C7_RejectedNeverQueued ==
  [][ /\ \A r \in DOMAIN reqs' : Answered(r) =>
           IF Accepted(reqs'[r])
           THEN /\ Len(eventQueue') = Len(eventQueue) + 1
                /\ SubSeq(eventQueue', 1, Len(eventQueue)) = eventQueue
                /\ eventQueue'[Len(eventQueue')].rid = r
           ELSE /\ UNCHANGED << eventQueue, flushTimer, timers >>
                /\ LastRes(reqs'[r]).error = "Invalid data" =>
                     /\ reqs'[r].failed # {}
                     /\ Range(LastRes(reqs'[r]).details) = reqs'[r].failed
                     /\ Len(LastRes(reqs'[r]).details) = Cardinality(reqs'[r].failed)
      /\ EnqueueStep => \E r \in DOMAIN reqs' : Answered(r) /\ Accepted(reqs'[r]) ]_vars

\* a request with four invalid fields was answered 400 with four messages
\* while an accepted event waits in the queue
C7_Witness ==
  /\ eventQueue # <<>>
  /\ \E r \in DOMAIN reqs :
       /\ reqs[r].res # <<>>
       /\ LastRes(reqs[r]).status = 400
       /\ Len(LastRes(reqs[r]).details) = 4

\* C8: a body over 10240 bytes is answered 413 exactly once and is neither
\* parsed nor enqueued, whatever arrives after the rejection; a body of at
\* most 10240 bytes is never answered 413.
C8_TooLarge ==
  \A r \in DOMAIN reqs :
    LET rec == reqs[r]
        n413 == Cardinality({i \in DOMAIN rec.res : rec.res[i].status = 413})
    IN /\ rec.bodySize > MAX_BODY_SIZE =>
            /\ rec.res = << Response(413, "Request too large", <<>>) >>
            /\ r \notin Range(enqueued)
       /\ rec.bodySize <= MAX_BODY_SIZE => n413 = 0
       /\ n413 <= 1

\* the first chunk was over the limit, a second chunk and the end of the
\* request came after the rejection
C8_Witness ==
  \E r \in DOMAIN reqs :
    /\ reqs[r].bodySize = MAX_BODY_SIZE + 1
    /\ reqs[r].late
    /\ ~reqs[r].open

\* a body of exactly 10240 bytes was accepted
C8_WitnessAtLimit ==
  \E r \in DOMAIN reqs :
    /\ reqs[r].bodySize = MAX_BODY_SIZE
    /\ r \in Range(enqueued)

\* the aggregation interval fires in this step
CycleStep == aggDue' # aggDue
\* the counts stored for an hour key: one pair per row of the key
Stored(table, hour) ==
  {<<r.rowid, r.page_views, r.unique_visitors>> : r \in {x \in table : x.hour = hour}}
Counts(table, hour) ==
  {<<r.page_views, r.unique_visitors>> : r \in {x \in table : x.hour = hour}}
\* the pageview events ever ingested that the cycle files under an hour key
IngestedFor(hour) ==
  {e \in ingested : e.event_name = "pageview" /\ StartOfHour(e.timestamp) = hour}

\* C9: a cycle that follows a cycle with no event ingested in between leaves
\* every bucket of stats_hourly with the counts it had, counted once.
C9_Idempotent ==
  [][(quiet /\ CycleStep) =>
       \A h \in {r.hour : r \in stats_hourly} :
          /\ Counts(stats_hourly', h) = Counts(stats_hourly, h)
          /\ Cardinality(Stored(stats_hourly', h)) = Cardinality(Stored(stats_hourly, h))]_vars

\* C10: a row a cycle writes for an hour key that has a stored aggregate
\* holds the counts over all pageview events ingested for that key, never
\* the smaller counts of the events the purge has left.
C10_OverwriteComplete ==
  [][\A c \in stats_hourly' \ stats_hourly :
        (\E b \in stats_hourly : b.hour = c.hour) =>
           /\ c.page_views = Cardinality(IngestedFor(c.hour))
           /\ c.unique_visitors = Cardinality({e.session_hash : e \in IngestedFor(c.hour)})]_vars

\* an aggregation cycle completes in this step, a sweep completes in this step
CycleDone == aggDue' # aggDue /\ cycleLog' = "aggregated"
SweepDone == sweepDue' # sweepDue /\ cycleLog' = "cleaned"

\* C11: a completed aggregation cycle run at now leaves exactly the events
\* of the table, pageviews and custom events alike, whose timestamp is not
\* below now - 1h - 24h.
C11_PurgeBoundary ==
  [][CycleDone =>
       events' = {e \in events : e.timestamp >= now - HourMs - DayMs}]_vars

\* a cycle has purged a custom event and kept an event stamped exactly at
\* the boundary
C11_Witness ==
  /\ cycleLog = "aggregated"
  /\ \E e \in ingested \ events : e.event_name = "signup"
  /\ \E e \in events : e.timestamp = (aggDue - HourMs) - HourMs - DayMs

\* the pageviews of a table that the SELECT of a cycle run at dateNow files
\* under an hour key
Selected(rows, dateNow, hour) ==
  {e \in rows : /\ e.event_name = "pageview"
                /\ e.timestamp < dateNow - HourMs
                /\ StartOfHour(e.timestamp) = hour}

\* C12: every pageview a completed cycle deletes is older than the select
\* boundary of that cycle, and the cycle wrote a row for its hour key that
\* counts the pageviews of that key in the table as the cycle found it.
C12_PurgedWereCounted ==
  [][CycleDone =>
       \A e \in events \ events' : e.event_name = "pageview" =>
          /\ e.timestamp < now - HourMs
          /\ \E c \in stats_hourly' \ stats_hourly :
                /\ c.hour = StartOfHour(e.timestamp)
                /\ c.page_views =
                     Cardinality(Selected(events, now, c.hour))
                /\ c.unique_visitors =
                     Cardinality({x.session_hash : x \in Selected(events, now, c.hour)})]_vars

\* a cycle has purged a pageview and its row counts two pageviews of two
\* visitors
C12_Witness ==
  /\ cycleLog = "aggregated"
  /\ \E e \in ingested \ events : e.event_name = "pageview"
  /\ \E c \in stats_hourly : c.hour = SqlNull /\ c.page_views = 2 /\ c.unique_visitors = 2

\* an aggregation cycle fails in this step, a sweep fails in this step
CycleFailed == aggDue' # aggDue /\ cycleLog' = "Hourly aggregation failed"
SweepFailed == sweepDue' # sweepDue /\ cycleLog' = "Cleanup failed"

\* C13: a failed aggregation cycle leaves the process running, its interval
\* armed for the next hour and every table as it was; a failed sweep leaves
\* the process running, its interval armed for the next day, the events and
\* the hourly interval as they were, and the tables such that the next
\* cycle and the next sweep yield what they would have yielded without it.
C13_FailureSkipped ==
  /\ [][CycleFailed =>
          /\ ~exited'
          /\ aggDue' = now + HourMs
          /\ UNCHANGED << events, stats_hourly, stats_daily, active_visitors, sweepDue >>]_vars
  /\ [][SweepFailed =>
          /\ ~exited'
          /\ sweepDue' = now + DayMs
          /\ UNCHANGED << events, active_visitors, aggDue >>
          /\ aggregateHourlyStats([events |-> events', stats_hourly |-> stats_hourly'], aggDue)
               = aggregateHourlyStats([events |-> events, stats_hourly |-> stats_hourly], aggDue)
          /\ cleanupOldData([stats_daily |-> stats_daily', stats_hourly |-> stats_hourly'],
                            env, sweepDue', "ok")
               = cleanupOldData([stats_daily |-> stats_daily, stats_hourly |-> stats_hourly],
                                env, sweepDue', "ok")]_vars

\* a sweep failed at its second statement, after the first had deleted a
\* daily row, and an aggregation cycle has completed after it
C13_Witness ==
  /\ env = NoEnv
  /\ sweepDue > StartNow + HourMs
  /\ stats_daily # DailySamples
  /\ HourlySamples \subseteq stats_hourly
  /\ cycleLog = "aggregated"
  /\ \E c \in stats_hourly : c.hour = SqlNull

C15_RawRetentionSetting ==
  [][CycleDone =>
       LET raw == parseInt(JsOr(env.RAW_DATA_RETENTION, JsStr("24", 2)).s)
       IN events' = {e \in events : e.timestamp >= now - HourMs - raw * HourMs}]_vars

\* C16: no two rows of active_visitors hold the same fingerprint and no two
\* rows of stats_hourly hold the same hour key.
C16_OneRowPerKey ==
  /\ \A v, w \in active_visitors : v.session_hash = w.session_hash => v = w
  /\ \A b, c \in stats_hourly : b.hour = c.hour => b = c

\* C17: every step leaves each row of events as it is or, in a completed
\* aggregation cycle, deletes it together with every row below the purge
\* boundary; a deleted row is older than the boundary, and the id of a row
\* is never given to another row.
C17_EventsImmutable ==
  [][ /\ \A e \in events :
           \/ e \in events'
           \/ /\ \A x \in events' : x.id # e.id
              /\ CycleDone
              /\ e.timestamp < now - HourMs - DayMs
      /\ \A x \in events' \ events : \A e \in ingested : x.id # e.id ]_vars

\* an event was stored while an older row was in the table, a cycle has
\* purged a row and the sweep has run
C17_Witness ==
  /\ Cardinality(ingested) = 2
  /\ Cardinality(events) = 1
  /\ sweepDue > StartNow + HourMs
  /\ \E e \in events : \E d \in ingested \ events : e.id > d.id

\* the rows of a table of active visitors that hold a fingerprint
RowsOf(table, f) == {v \in table : v.session_hash = f}

\* C18: on every table the program reaches, updateActiveVisitor(f, page,
\* country) leaves for f the one row holding page, country and the current
\* second, with page_count 1 when f had no row and one more than before
\* when it had.
C18_UpsertOverwrites ==
  \A a \in VisitSamples :
    LET after == updateActiveVisitor(FlushState.db, a[1], a[2], a[3], now).active_visitors
        old == RowsOf(active_visitors, a[1])
    IN RowsOf(after, a[1]) =
         { [ session_hash |-> a[1], page_url |-> a[2], country |-> a[3],
             last_seen |-> now \div 1000,
             page_count |-> IF old = {} THEN 1
                            ELSE 1 + Greatest({v.page_count : v \in old}) ] }

\* C19: getActiveVisitors counts every fingerprint upserted less than 300
\* seconds ago and none upserted more than 300 seconds ago, whether or not
\* its row is still in the table, and the row of a fingerprint upserted at
\* most 300 seconds ago is in the table.
C19_ActiveWindow ==
  LET nowSec == now \div 1000
      count == getActiveVisitors(active_visitors, now)
  IN /\ count >= Cardinality({h \in visits : h.last > nowSec - ActiveWindowSec})
     /\ count <= Cardinality({h \in visits : h.last >= nowSec - ActiveWindowSec})
     /\ \A h \in visits : h.last >= nowSec - ActiveWindowSec =>
           RowsOf(active_visitors, h.session_hash) # {}

\* the row of a fingerprint last seen more than 300 seconds ago is in the
\* table and is not counted, the other fingerprint is counted
C19_Witness ==
  /\ Cardinality(active_visitors) = 2
  /\ getActiveVisitors(active_visitors, now) = 1
  /\ \E v \in active_visitors : v.last_seen < now \div 1000 - ActiveWindowSec

\* a fingerprint seen exactly 300 seconds ago has its row and is not counted
C19_WitnessAtWindow ==
  /\ \E v \in active_visitors : v.last_seen = now \div 1000 - ActiveWindowSec
  /\ getActiveVisitors(active_visitors, now) = 0

\* C20 as claimed: the page_count of the row of a fingerprint is never below
\* a page_count the fingerprint has had.
C20_NeverBelowPeak ==
  \A h \in visits : \A v \in RowsOf(active_visitors, h.session_hash) :
     v.page_count >= h.peak

\* C20: while the row of a fingerprint is in the table its page_count never
\* decreases, whatever is upserted or deleted around it, and a row the
\* table gains starts at 1.
C20_MonotoneWhileStored ==
  [][\A w \in active_visitors' :
        LET old == RowsOf(active_visitors, w.session_hash)
        IN IF old = {} THEN w.page_count = 1
           ELSE \A v \in old : w.page_count >= v.page_count]_vars

\* a fingerprint whose row had reached page_count 2 and was deleted by the
\* trigger is in the table again
C20_Witness ==
  \E h \in visits : /\ h.peak >= 2
                     /\ h.n >= 3
                     /\ \E v \in RowsOf(active_visitors, h.session_hash) : v.page_count = 1

\* the message a rejected sample value earns its field
BadMessage ==
  [ url |-> "URL must start with http:// or https://",
    sid |-> "Session ID contains invalid characters",
    ref |-> "Referrer must be a string",
    scr |-> "Screen size must be in format WIDTHxHEIGHT",
    tz |-> "Timezone exceeds maximum length of 50",
    ts |-> "Timestamp must be a number",
    evt |-> "Event name must be a string",
    props |-> "Event properties must be an object",
    utm_source |-> "utm_source exceeds maximum length of 200",
    utm_medium |-> "utm_medium must be a string",
    utm_campaign |-> "utm_campaign must be a string",
    utm_term |-> "utm_term exceeds maximum length of 200",
    utm_content |-> "utm_content must be a string" ]

\* the positions of the fields of a payload that hold their rejected value
RejectedAt(d) == {i \in 1..13 : d[Fields[i]] = BadData[Fields[i]]}

\* the number of positions of S below position i, i included
Rank(S, i) == Cardinality({j \in S : j <= i})

\* C21: validateCollectData checks the thirteen fields independently: for a
\* payload that holds, per field, an accepted or a rejected value, the
\* errors are exactly the messages of the rejected fields, one each, in the
\* order of the fields, whatever the other fields hold; and valid is true
\* if and only if the list of errors is empty.
C21_OneErrorPerField ==
  output # NotCalled =>
    /\ output.valid = (output.errors = <<>>)
    /\ input \in GridData =>
         /\ Len(output.errors) = Cardinality(RejectedAt(input))
         /\ \A i \in RejectedAt(input) :
              output.errors[Rank(RejectedAt(input), i)] = BadMessage[Fields[i]]

\* a call on the payload whose thirteen fields all fail has returned
\* thirteen errors
C21_Witness ==
  output # NotCalled /\ input = BadData /\ Len(output.errors) = 13 /\ ~output.valid

\* C22: for every optional field, each of the values null, undefined and
\* the empty string is treated as absent and is valid: a pageview that is
\* valid without the field is valid with the field set to any of the three.
C22_AbsentIsValid ==
  (output # NotCalled /\ input \in AbsentData) => output.valid

\* the end handler of request r runs in this step
Ends(r) == r \in DOMAIN reqs /\ reqs[r].open /\ ~reqs'[r].open

\* a timestamp a client sent that lies outside [2020-01-01, dateNow + 24 h]
OutOfRange(ts, dateNow) == ts.t = "number" /\ (ts.n < minTime \/ ts.n > dateNow + DayMs)

\* C23: every event that enters the queue has a timestamp within
\* [2020-01-01T00:00Z, time of acceptance + 24 h]: a request whose client
\* timestamp lies outside the range is not queued, and the event of a request
\* without a timestamp carries the server's time of acceptance.
C23_TimestampInRange ==
  [][\A r \in DOMAIN reqs : Ends(r) =>
       /\ OutOfRange(reqs'[r].data.ts, now) => eventQueue' = eventQueue
       /\ eventQueue' # eventQueue =>
            LET event == eventQueue'[Len(eventQueue')]
            IN /\ event.rid = r
               /\ event.timestamp >= minTime
               /\ event.timestamp <= now + DayMs
               /\ reqs'[r].data.ts.t \in {"null", "undefined"} => event.timestamp = now]_vars

\* a request with a timestamp later than a day ahead was answered 400 and a
\* request without a timestamp was queued with the time of the server
C23_Witness ==
  /\ \E r \in DOMAIN reqs :
       /\ reqs[r].data.ts.t = "number" /\ reqs[r].data.ts.n > now + DayMs
       /\ LastRes(reqs[r]).status = 400
       /\ r \notin Range(enqueued)
  /\ \E i \in DOMAIN eventQueue :
       /\ reqs[eventQueue[i].rid].data.ts.t = "undefined"
       /\ eventQueue[i].timestamp = now

\* a timestamp that was a tick too late when the process started is accepted
\* a tick later, and the first instant of 2020 is accepted as it is
C23_WitnessAtLimits ==
  /\ \E i \in DOMAIN eventQueue : eventQueue[i].timestamp = now + DayMs /\ now > StartNow
  /\ \E i \in DOMAIN eventQueue : eventQueue[i].timestamp = minTime

\* the calendar day of an instant, in the zone of the server
DayOf(t) == t \div DayMs

\* C24: hashSession is deterministic within a calendar day: two calls with
\* the same session id and address on the same calendar date of the server
\* return the same value, and every value returned is exactly 16 lower-case
\* hexadecimal characters.
C24_SameDaySameHash ==
  /\ \A a, b \in hashes :
       (a.sessionId = b.sessionId /\ a.ip = b.ip /\ DayOf(a.at) = DayOf(b.at))
         => a.hash = b.hash
  /\ \A a \in hashes : a.hash.length = 16 /\ a.hash.chars = "0-9a-f"

\* two calls with the same arguments at two instants of one day
C24_Witness ==
  \E a, b \in hashes :
    /\ a.sessionId = b.sessionId /\ a.ip = b.ip
    /\ a.at # b.at /\ DayOf(a.at) = DayOf(b.at)
    /\ a.hash = b.hash

\* C25: the fingerprint rotates by calendar day and separates inputs: for
\* the same session id and address, calls on different calendar dates of the
\* server return different values, even minutes apart across midnight; and
\* on one date a different session id or a different address returns a
\* different value.
C25_RotatesAndSeparates ==
  \A a, b \in hashes :
    /\ (a.sessionId = b.sessionId /\ a.ip = b.ip /\ DayOf(a.at) # DayOf(b.at))
         => a.hash # b.hash
    /\ (DayOf(a.at) = DayOf(b.at) /\ (a.sessionId # b.sessionId \/ a.ip # b.ip))
         => a.hash # b.hash

\* two calls with the same arguments ten minutes apart, before and at
\* midnight, and their values differ
C25_Witness ==
  \E a, b \in hashes :
    /\ a.sessionId = b.sessionId /\ a.ip = b.ip
    /\ b.at = a.at + MinutesMs /\ DayOf(a.at) # DayOf(b.at)
    /\ a.hash # b.hash

\* two calls on one date from two addresses, and their values differ
C25_WitnessAddress ==
  \E a, b \in hashes :
    /\ a.sessionId = b.sessionId /\ a.ip # b.ip /\ DayOf(a.at) = DayOf(b.at)
    /\ a.hash # b.hash

\* the events that are queued or persisted
Kept == Range(eventQueue) \cup events

\* the connection of the request an event comes from
ConnOf(e) == Conns[reqs[e.rid].conn]

\* the texts an event carries in the fields other than the fingerprint
TextsOf(e) ==
  { e.page_url, e.country, e.event_name, e.referrer.s, e.screen_size.s, e.timezone.s,
    e.event_props.s, e.utm_source.s, e.utm_medium.s, e.utm_campaign.s, e.utm_term.s,
    e.utm_content.s }

\* the fields of an event other than its identity and its fingerprint
Visible(e) ==
  << e.timestamp, e.page_url, e.country, e.event_name, e.referrer, e.screen_size,
     e.timezone, e.event_props, e.utm_source, e.utm_medium, e.utm_campaign, e.utm_term,
     e.utm_content >>

\* the headers that do not name an address
CountryHeaders(c) == << c.headers.cf_ipcountry, c.headers.x_country_code >>

\* C26: no event that is queued or persisted carries the raw network
\* address or the raw session id in any field, and the address and session
\* id of a request influence the stored event only through the fingerprint:
\* two events of requests that differ in nothing but the address and the
\* session id (here: the same payload but for sid, sent at the same instant
\* with the same country headers) are equal in every field but the
\* fingerprint.
C26_OnlyThroughFingerprint ==
  /\ \A e \in Kept :
       /\ extractIpInfo(ConnOf(e)).ip \notin TextsOf(e)
       /\ reqs[e.rid].data.sid.s \notin TextsOf(e)
       /\ e.session_hash.length = 16
  /\ \A e1, e2 \in Kept :
       (CountryHeaders(ConnOf(e1)) = CountryHeaders(ConnOf(e2)) /\ e1.timestamp = e2.timestamp)
         => Visible(e1) = Visible(e2)

\* C27: the country stored with an event is derived from trusted proxy
\* headers only: the events of two requests with identical headers but
\* different network addresses carry the same country.
C27_CountryFromHeaders ==
  \A e1, e2 \in Kept :
    ConnOf(e1).headers = ConnOf(e2).headers => e1.country = e2.country

\* the requests of an address the given limiters passed to next() within
\* the window that ends now
InWindow(limiters, ip) ==
  {a \in admitted : a.limiter \in limiters /\ a.ip = ip /\ a.at > now - WindowMs}

\* handleRequest runs in this step
HandleStep ==
  /\ last' # NoRequest
  /\ last' # last \/ admitted' # admitted \/ requests' # requests

\* C28: for a limiter created with (windowMs, maxRequests), at most
\* maxRequests requests of one client address are passed to next() within
\* any window of length windowMs (a window that ends at an instant and
\* begins windowMs before it, that instant excluded); a request that arrives
\* when maxRequests were admitted in the last windowMs gets 429 with the
\* JSON error and next() is not called; and the requests of other addresses
\* do not matter: a 429 is given only when the window holds that many
\* requests of the same address.
C28_WindowLimit ==
  [][/\ \A limiter \in Limiters, c \in DOMAIN Conns :
          Cardinality({a \in admitted' : /\ a.limiter = limiter
                                         /\ a.ip = clientIp(Conns[c])
                                         /\ a.at > now' - WindowMs}) <= Limit(limiter)
     /\ (HandleStep /\ last'.limiter \in Limiters) =>
          /\ Cardinality(InWindow({last'.limiter}, last'.ip)) >= Limit(last'.limiter) =>
               /\ last'.status = 429
               /\ last'.error = "Too many requests"
               /\ last'.handler = "(none)"
               /\ admitted' = admitted
               /\ reqs' = reqs
          /\ last'.status = 429 =>
               Cardinality(InWindow(Limiters, last'.ip)) >= Limit(last'.limiter)]_vars

\* a client was answered 429 by the collection limiter with its window
\* full, while the window holds a request of another client
C28_Witness ==
  /\ last.status = 429
  /\ last.limiter = "collect"
  /\ Cardinality(InWindow({"collect"}, last.ip)) = CollectLimit
  /\ \E a \in admitted : a.ip # last.ip /\ a.at > now - WindowMs

\* C29: the collection endpoint and the other API endpoints have separate
\* limits: the requests of an address to /api/collect never count against
\* its budget for /api/stats and /api/export, and the other way round, so a
\* request is answered 429 only when the limiter of its own endpoint has
\* admitted its limit of requests of the address within the window.
C29_SeparateBudgets ==
  [][(HandleStep /\ last'.status = 429) =>
       Cardinality(InWindow({last'.limiter}, last'.ip)) >= Limit(last'.limiter)]_vars

\* C30: rate limiting applies to all endpoints: every request the server
\* handles, whatever its path and its credentials, passes through a rate
\* limiter before it is served.
C30_AllEndpointsLimited ==
  last # NoRequest => last.limiter \in Limiters

\* the request carries the token as Bearer authorization or in a cookie
\* named mm_token
Carries(req, token) ==
  \/ req.authorization = "Bearer " \o token
  \/ \E i \in DOMAIN req.cookie :
       req.cookie[i].name = "mm_token" /\ req.cookie[i].value = token

\* the routes the claim names as protected and as public
Guarded == {"stats", "export", "dashboard", "asset"}
Public == {"collect", "tracker", "health"}

\* C31: when AUTH_TOKEN is set, the stats, export and dashboard handlers run
\* only for requests that carry the exact token as Bearer authorization or
\* as mm_token cookie, and every other request to them is answered 401
\* "Unauthorized" without its handler (or its limiter) being invoked;
\* /api/collect, /tracker.min.js and /health are never answered 401, with
\* or without credentials; and when AUTH_TOKEN is unset no request at all
\* is answered 401.
C31_TokenRequired ==
  [][HandleStep =>
       LET route == Route(last'.path)
       IN /\ (authToken # NoToken /\ route \in Guarded /\ last'.handler = route) =>
               Carries(last', authToken)
          /\ (authToken # NoToken /\ route \in Guarded /\ ~Carries(last', authToken)) =>
               /\ last'.status = 401
               /\ last'.error = "Unauthorized"
               /\ last'.handler = "(none)"
               /\ requests' = requests
               /\ admitted' = admitted
          /\ route \in Public => last'.status # 401
          /\ authToken = NoToken => last'.status # 401]_vars

\* with a token configured, a stats request that carried the token under
\* another cookie name and as a bare Authorization header was answered 401
C31_Witness ==
  /\ authToken # NoToken
  /\ last.path = "/api/stats/overview"
  /\ last.authorization = authToken
  /\ \E i \in DOMAIN last.cookie : last.cookie[i].value = authToken
  /\ last.status = 401

\* with a token configured, the export handler ran for a request with the
\* token in its mm_token cookie and another token as Bearer authorization
C31_WitnessServed ==
  /\ authToken # NoToken
  /\ last.handler = "export"
  /\ last.authorization = "Bearer wrong"
  /\ last.status = 200

\* the origins CORS_ORIGINS lists
Listed == {getAllowedOrigins(corsOrigins)[i] : i \in DOMAIN getAllowedOrigins(corsOrigins)}

\* C32: when CORS_ORIGINS is set to a list of origins, no response of the
\* server carries an Access-Control-Allow-Origin header that admits an
\* origin outside the list: the header is absent or names a listed origin,
\* and is never '*'; for collect, stats and export responses alike.
C32_OnlyListedOrigins ==
  (last # NoRequest /\ "*" \notin Listed) => last.allowOrigin \in Listed \cup {NoHeader}

\* C33: the pages, referrers and campaigns endpoints return at most the
\* maximum number of entries (100, here ListCap) for every value of the
\* limit query parameter, and getTopPages(start, end, limit) never returns
\* more than limit rows.
C33_AtMostLimit ==
  /\ (answer.call.fn = "handleStats" /\ answer.call.endpoint \in ListEndpoints) =>
       Len(answer.value.rows) <= ListCap
  /\ answer.call.fn = "getTopPages" => Len(answer.value) <= answer.call.limit

\* the names of the hours of a day
HourNames ==
  << "00", "01", "02", "03", "04", "05", "06", "07", "08", "09", "10", "11",
     "12", "13", "14", "15", "16", "17", "18", "19", "20", "21", "22", "23" >>

\* the stored pageviews of the i-th hour of the day a text names
PageviewsOfHour(date, i) ==
  {e \in events : /\ e.event_name = "pageview"
                  /\ IsoDate(e.timestamp) = date
                  /\ (e.timestamp \div HourMs) % 24 = i - 1}

\* C34: the hourly breakdown for a date consists of exactly 24 buckets, the
\* hours 00 to 23 in ascending order, each once; an hour without pageview
\* events reports page_views 0 and unique_visitors 0 and is not left out
\* (and an hour with pageviews reports their number).
C34_TwentyFourBuckets ==
  (answer.call.fn = "handleStats" /\ answer.call.endpoint = "hourly") =>
    LET hours == answer.value.hours
    IN /\ DOMAIN hours = 1..24
       /\ \A i \in 1..24 :
            /\ hours[i].hour = HourNames[i]
            /\ hours[i].page_views = Cardinality(PageviewsOfHour(answer.value.date, i))
            /\ PageviewsOfHour(answer.value.date, i) = {} => hours[i].unique_visitors = 0

\* the breakdown of a day with pageviews in its second hour and in no other
C34_Witness ==
  /\ answer.call.fn = "handleStats"
  /\ answer.call.endpoint = "hourly"
  /\ answer.value.hours[2].page_views >= 2
  /\ \A i \in (1..24) \ {2} : answer.value.hours[i].page_views = 0

\* the breakdown of the day of the request, asked for without a date, with a
\* pageview that arrived in this hour
C34_WitnessToday ==
  /\ answer.call.fn = "handleStats"
  /\ answer.call.endpoint = "hourly"
  /\ answer.call.date = NoParam
  /\ answer.value.hours[((now \div HourMs) % 24) + 1].page_views > 0

\* the value of a percentage in tenths that Math.round(x * 10) / 10 gives
\* for the change from prev to curr: the tenth next to the exact quotient,
\* the greater one of two that are equally near
NearestTenth(curr, prev, t) ==
  /\ 2 * (1000 * (curr - prev) - t * prev) <= prev
  /\ 2 * (t * prev - 1000 * (curr - prev)) < prev

\* what the comparison reports for a metric
ChangeOk(curr, prev, change) ==
  /\ change.finite
  /\ prev = 0 => change.tenths = (IF curr > 0 THEN 1000 ELSE 0)
  /\ prev # 0 => NearestTenth(curr, prev, change.tenths)

\* C35: getPageViewsWithComparison reports, per metric, a percent change
\* that is a finite number: when the value of the previous period is 0 the
\* change is 100 if the current value is greater than 0 and 0 otherwise (no
\* division by zero occurs), and otherwise it is the change in percent
\* rounded to a tenth.
C35_FiniteChange ==
  answer.call.fn = "getPageViewsWithComparison" =>
    /\ ChangeOk(answer.value.current.total, answer.value.previous.total,
                answer.value.change.total)
    /\ ChangeOk(answer.value.current.unique_visitors, answer.value.previous.unique_visitors,
                answer.value.change.unique_visitors)

\* a comparison with pageviews in the current period and none in the
\* previous one: the change is 100
C35_Witness ==
  /\ answer.call.fn = "getPageViewsWithComparison"
  /\ answer.value.previous.total = 0
  /\ answer.value.current.total > 0
  /\ answer.value.change.total = Percent(100)

\* a comparison with no pageviews in either period: the change is 0
C35_WitnessBothZero ==
  /\ answer.call.fn = "getPageViewsWithComparison"
  /\ answer.value.previous.total = 0
  /\ answer.value.current.total = 0
  /\ answer.value.change.total = Percent(0)

\* a comparison with fewer pageviews than in the previous period
C35_WitnessDecline ==
  /\ answer.call.fn = "getPageViewsWithComparison"
  /\ answer.value.previous.total > answer.value.current.total
  /\ answer.value.change.total.tenths < 0

\* the events inserted so far (none was purged) that lie in the period of
\* a call, and the pageviews among them
InPeriod(call) ==
  {e \in ingested : call.startTime <= e.timestamp /\ e.timestamp <= call.endTime}
PageviewsIn(call) == {e \in InPeriod(call) : e.event_name = "pageview"}

\* C36: getPageViews(start, end) returns as total the number of stored
\* events with event_name 'pageview' and start <= timestamp <= end, and as
\* unique_visitors the number of distinct fingerprints among them; custom
\* events never contribute, unique_visitors <= total always holds, and a
\* period without events yields total 0 and unique_visitors 0.
C36_PageViewTotals ==
  answer.call.fn = "getPageViews" =>
    /\ answer.value.total = Cardinality(PageviewsIn(answer.call))
    /\ answer.value.unique_visitors =
         Cardinality({e.session_hash : e \in PageviewsIn(answer.call)})
    /\ answer.value.unique_visitors <= answer.value.total
    /\ InPeriod(answer.call) = {} =>
         answer.value.total = 0 /\ answer.value.unique_visitors = 0

\* the totals of a period that holds a custom event, a pageview stamped at
\* its first instant, and more pageviews than visitors
C36_Witness ==
  /\ answer.call.fn = "getPageViews"
  /\ \E e \in InPeriod(answer.call) : e.event_name # "pageview"
  /\ \E e \in PageviewsIn(answer.call) : e.timestamp = answer.call.startTime
  /\ answer.value.unique_visitors < answer.value.total

\* the totals of a period without events, while the table holds some
C36_WitnessEmpty ==
  /\ answer.call.fn = "getPageViews"
  /\ InPeriod(answer.call) = {}
  /\ ingested # {}
  /\ answer.value.total = 0

\* the sum of the views of the rows of a result
RECURSIVE SumViews(_)
SumViews(rows) == IF rows = << >> THEN 0 ELSE rows[1].views + SumViews(Tail(rows))

\* C37: after N pageview events that share one page path were inserted,
\* getTopPages over a period that covers them reports exactly N views for
\* that path; the rows are ordered by views descending, no path has two
\* rows, and when the limit does not cut the list every path with a
\* pageview in the period has a row and the views of all rows sum to the
\* total of getPageViews for the period.
C37_TopPagesCount ==
  answer.call.fn = "getTopPages" =>
    LET rows == answer.value
        Views(p) == {e \in PageviewsIn(answer.call) : e.page_url = p}
    IN /\ \A i \in DOMAIN rows : rows[i].views = Cardinality(Views(rows[i].page_url))
       /\ \A i, j \in DOMAIN rows : i < j =>
            rows[i].views >= rows[j].views /\ rows[i].page_url # rows[j].page_url
       /\ Len(rows) < answer.call.limit =>
            /\ \A e \in PageviewsIn(answer.call) :
                 \E i \in DOMAIN rows : rows[i].page_url = e.page_url
            /\ SumViews(rows) = getPageViews(events, answer.call.startTime,
                                             answer.call.endTime).total

\* the top pages of a period in which one path has three pageviews, sent
\* with and without a query string, and another path has fewer
C37_Witness ==
  /\ answer.call.fn = "getTopPages"
  /\ Len(answer.value) >= 2
  /\ Len(answer.value) < answer.call.limit
  /\ answer.value[1].page_url = "/a"
  /\ answer.value[1].views = 3
  /\ answer.value[2].views < 3

\* the top pages of a period with more pages than the limit
C37_WitnessCut ==
  /\ answer.call.fn = "getTopPages"
  /\ Len(answer.value) = answer.call.limit
  /\ \E e \in PageviewsIn(answer.call) :
       \A i \in DOMAIN answer.value : answer.value[i].page_url # e.page_url

\* C39: in getPageViewsWithComparison the previous period has the length
\* of the current one and immediately precedes it, and the two are
\* disjoint: every pageview of the span from the start of the previous
\* period to the end of the current one is counted in exactly one of the
\* two totals, also a pageview stamped at the start of the current period.
C39_DisjointPeriods ==
  answer.call.fn = "getPageViewsWithComparison" =>
    LET duration == answer.call.endTime - answer.call.startTime
        span == {e \in ingested : /\ e.event_name = "pageview"
                                  /\ answer.call.startTime - duration <= e.timestamp
                                  /\ e.timestamp <= answer.call.endTime}
    IN answer.value.current.total + answer.value.previous.total = Cardinality(span)

\* the pageviews a cycle that runs now selects, and the events it purges
Due == {e \in events : e.timestamp < now - HourMs /\ e.event_name = "pageview"}
Expired == {e \in events : e.timestamp < now - HourMs - DayMs}

\* C38: an aggregation cycle is atomic: if a statement of the cycle throws
\* (the select, an upsert of a bucket, or the purge), the events table and
\* stats_hourly are exactly as before the cycle; so no cycle writes buckets
\* without purging the expired events, and none purges events without
\* writing the buckets of the pageviews it selected.
C38_AtomicCycle ==
  [][CycleStep =>
       /\ CycleFailed => events' = events /\ stats_hourly' = stats_hourly
       /\ stats_hourly' # stats_hourly => events' = events \ Expired
       /\ (events' # events /\ Due # {}) => stats_hourly' # stats_hourly]_vars

\* a cycle failed at its purge, after it had written the bucket of the
\* pageviews it selected, while the table holds expired events
C38_Witness ==
  /\ cycleLog = "Hourly aggregation failed"
  /\ failedAt = "purge"
  /\ \E e \in events : e.event_name = "pageview" /\ e.timestamp < aggDue - 2 * HourMs - DayMs

\* a cycle failed at an upsert of a bucket
C38_WitnessInsert ==
  /\ cycleLog = "Hourly aggregation failed"
  /\ failedAt = "insert"
  /\ \E e \in events : e.event_name = "pageview" /\ e.timestamp < aggDue - 2 * HourMs

\* the timestamps the map holds for an address within the window that ends
\* now
StoredInWindow(ip) ==
  IF requestKey(ip) \in DOMAIN requests
  THEN Len(Recent(requests[requestKey(ip)], now - WindowMs)) ELSE 0

\* C40: a client that was answered 429 is admitted again as soon as fewer
\* than maxRequests of its admitted requests lie within the last windowMs:
\* a request is passed to next() exactly when fewer than maxRequests
\* admitted requests of its address lie within the window, a request that
\* is answered 429 leaves the map as it was, and after every step the map
\* holds, for every address, exactly the admitted requests of the window,
\* whether or not the sweep of the map has run.
C40_Recovery ==
  [][/\ (HandleStep /\ last'.limiter \in Limiters) =>
          /\ last'.status # 429 <=>
               Cardinality(InWindow(Limiters, last'.ip)) < Limit(last'.limiter)
          /\ last'.status = 429 => requests' = requests
     /\ \A c \in DOMAIN Conns :
          StoredInWindow(clientIp(Conns[c]))' =
            Cardinality(InWindow(Limiters, clientIp(Conns[c])))']_vars

\* a client is admitted by the limiter that answered it 429 half a window
\* ago
C40_Witness ==
  /\ last.limiter \in Limiters
  /\ last.status # 429
  /\ last.at = now
  /\ refusal.limiter = last.limiter
  /\ refusal.ip = last.ip
  /\ refusal.at < last.at
  /\ last.at - refusal.at < WindowMs

\* the sweep ran at the admission of a request and kept the requests of
\* the window of the other clients
C40_WitnessSweep ==
  /\ last.limiter \in Limiters
  /\ last.status # 429
  /\ Cardinality(DOMAIN requests) > MaxKeys
  /\ \E a \in admitted : a.ip # last.ip /\ a.at > now - WindowMs /\ a.at < now

====
